---- MODULE Spec2Model ----
(***************************************************************************)
(* Model of the ray tracer's core: vector algebra (tuple.rs), matrices and *)
(* the transform builder (matrix.rs), rays (ray.rs), objects and hit       *)
(* selection (object.rs), the reflectance function (material.rs) and the   *)
(* world (world.rs).                                                       *)
(*                                                                         *)
(* Scalars.  The program computes in f32.  The model computes in fixed     *)
(* point: the integer n stands for the real n / ONE, and every product,    *)
(* quotient and square root is rounded to that grid, as every f32          *)
(* operation is rounded to the nearest float.  EPSILON, one grid step,     *)
(* stands for f32::EPSILON.                                                *)
(***************************************************************************)
EXTENDS Integers, Sequences, FiniteSets, TLC

\* ------------------------------------------------------------------ scalars
ONE == 1000
EPSILON == 1

Abs(a) == IF a < 0 THEN 0 - a ELSE a

\* n / d rounded to the nearest integer, halves away from zero (d > 0).
RoundDiv(n, d) ==
    IF n >= 0 THEN (n + d \div 2) \div d ELSE 0 - ((0 - n + d \div 2) \div d)

Sign(a) == IF a < 0 THEN 0 - 1 ELSE 1
Max(a, b) == IF a >= b THEN a ELSE b
Min(a, b) == IF a >= b THEN b ELSE a

\* f32 multiplication: a * b / ONE rounded to the grid.  The larger operand
\* is split into whole and fractional parts to keep the intermediate
\* products in range.
FMul(a, b) ==
    LET hi == Max(Abs(a), Abs(b))
        lo == Min(Abs(a), Abs(b))
    IN  Sign(a) * Sign(b) * ((hi \div ONE) * lo + RoundDiv((hi % ONE) * lo, ONE))

\* f32 division: a * ONE / b rounded to the grid (b # 0).
FDiv(a, b) ==
    LET n == Abs(a)
        d == Abs(b)
    IN  Sign(a) * Sign(b) * ((n \div d) * ONE + RoundDiv((n % d) * ONE, d))

\* floor(a * ONE / d) and (a * ONE) mod d, for a >= 0 and d > 0.
ScaledQuot(a, d) == (a \div d) * ONE + ((a % d) * ONE) \div d
ScaledRem(a, d) == ((a % d) * ONE) % d

\* Largest r in lo..hi with r * r <= a * ONE.
RECURSIVE ISqrtIn(_, _, _)
ISqrtIn(a, lo, hi) ==
    IF lo >= hi THEN lo
    ELSE LET mid == (lo + hi + 1) \div 2
         IN  IF mid <= ScaledQuot(a, mid) THEN ISqrtIn(a, mid, hi) ELSE ISqrtIn(a, lo, mid - 1)

\* f32::sqrt for a >= 0: the square root of a * ONE rounded to the nearest
\* grid value.
FSqrt(a) ==
    LET r == ISqrtIn(a, 0, 1465000)
        up == ScaledQuot(a, r + 1) > r \/ (ScaledQuot(a, r + 1) = r /\ ScaledRem(a, r + 1) > 0)
    IN  IF up THEN r + 1 ELSE r

\* f32::powf(x, e) for a whole exponent e (given on the grid, e = k * ONE).
RECURSIVE PowInt(_, _)
PowInt(x, k) ==
    IF k = 0 THEN ONE
    ELSE IF k % 2 = 0 THEN LET h == PowInt(x, k \div 2) IN FMul(h, h)
    ELSE FMul(x, PowInt(x, k - 1))

powf(x, e) == PowInt(x, e \div ONE)

\* Angles are radians on the grid; cos and sin are tabulated for the
\* multiples of pi/4 the scenes use.
PI == 3142
HALF_PI == PI \div 2
QUARTER_PI == PI \div 4

cos(r) ==
    CASE r = 0 -> ONE
      [] Abs(r) = QUARTER_PI -> 707
      [] Abs(r) = HALF_PI -> 0
      [] Abs(r) = PI -> 0 - ONE

sin(r) ==
    CASE r = 0 -> 0
      [] r = QUARTER_PI -> 707
      [] r = 0 - QUARTER_PI -> 0 - 707
      [] r = HALF_PI -> ONE
      [] r = 0 - HALF_PI -> 0 - ONE
      [] Abs(r) = PI -> 0

\* ------------------------------------------------------------------- tuples
\* Tuple<T>(x, y, z, w) is <<x, y, z, w>>; field .k is component k + 1.
new_point(x, y, z) == <<x, y, z, ONE>>
new_vector(x, y, z) == <<x, y, z, 0>>

Tuple_add(a, b) == <<a[1] + b[1], a[2] + b[2], a[3] + b[3], a[4] + b[4]>>
Tuple_sub(a, b) == <<a[1] - b[1], a[2] - b[2], a[3] - b[3], a[4] - b[4]>>
Tuple_neg(a) == <<0 - a[1], 0 - a[2], 0 - a[3], 0 - a[4]>>
Tuple_mul(a, s) == <<FMul(a[1], s), FMul(a[2], s), FMul(a[3], s), FMul(a[4], s)>>
Tuple_div(a, s) == <<FDiv(a[1], s), FDiv(a[2], s), FDiv(a[3], s), FDiv(a[4], s)>>

\* The assertions of the vector-only operations.
is_vector(t) == t[4] = 0

magnitude(t) == FSqrt(FMul(t[1], t[1]) + FMul(t[2], t[2]) + FMul(t[3], t[3]))
normalize(t) == Tuple_div(t, magnitude(t))

dot(a, b) == FMul(a[1], b[1]) + FMul(a[2], b[2]) + FMul(a[3], b[3]) + FMul(a[4], b[4])

cross(a, b) ==
    new_vector(FMul(a[2], b[3]) - FMul(a[3], b[2]),
               FMul(a[3], b[1]) - FMul(a[1], b[3]),
               FMul(a[1], b[2]) - FMul(a[2], b[1]))

reflect(v, n) == Tuple_sub(v, Tuple_mul(Tuple_mul(n, ONE + ONE), dot(v, n)))

Tuple_eq_real(a, b) == \A k \in 1..4 : Abs(a[k] - b[k]) <= EPSILON

\* #[derive(PartialEq)]: the == of two tuples compares the fields with ==.
Tuple_eq(a, b) == \A k \in 1..4 : a[k] = b[k]

\* The outcome of a call: the value returned, or the panic of a failed
\* assert!.
PANIC == [tag |-> "Panic"]
Returns(v) == [tag |-> "Return", val |-> v]

Call_magnitude(t) == IF ~is_vector(t) THEN PANIC ELSE Returns(magnitude(t))

\* normalize asserts, then calls magnitude, which asserts again.
Call_normalize(t) ==
    IF ~is_vector(t) \/ Call_magnitude(t) = PANIC THEN PANIC ELSE Returns(normalize(t))

\* dot asserting on its first operand only.
Call_dot_first_only(t1, t2) == IF ~is_vector(t1) THEN PANIC ELSE Returns(dot(t1, t2))

Call_dot(t1, t2) ==
    IF ~is_vector(t1) THEN PANIC
    ELSE IF ~is_vector(t2) THEN PANIC
    ELSE Returns(dot(t1, t2))

Call_cross(t1, t2) ==
    IF ~is_vector(t1) THEN PANIC
    ELSE IF ~is_vector(t2) THEN PANIC
    ELSE Returns(cross(t1, t2))

\* reflect has no assertion of its own: it panics where its call of dot does.
Call_reflect(v, n) == IF Call_dot(v, n) = PANIC THEN PANIC ELSE Returns(reflect(v, n))

\* ------------------------------------------------------------------- colors
Color_new(r, g, b) == <<r, g, b>>
Color_add(a, b) == <<a[1] + b[1], a[2] + b[2], a[3] + b[3]>>
Color_scale(a, s) == <<FMul(a[1], s), FMul(a[2], s), FMul(a[3], s)>>
Color_mul(a, b) == <<FMul(a[1], b[1]), FMul(a[2], b[2]), FMul(a[3], b[3])>>
\* PartialEq for Color is tolerance based.
Color_eq(a, b) == \A k \in 1..3 : Abs(a[k] - b[k]) <= EPSILON

BLACK == Color_new(0, 0, 0)

\* ----------------------------------------------------------------- matrices
\* Matrix<T> { elems, width, height }; elems is 0-based in the source and
\* 1-based here, so element k of the source is elems[k + 1].
NONE == [tag |-> "None"]
Some(v) == [tag |-> "Some", val |-> v]

\* The assertion of get_index.
get_index_ok(m, i, j) == i < m.height /\ j < m.width
get_index(m, i, j) == i * m.width + j

\* m[(i, j)] as a call: the panic of get_index's assertion or of the Vec's
\* bounds check, or the element.
Call_index(m, i, j) ==
    IF ~get_index_ok(m, i, j) THEN PANIC
    ELSE IF get_index(m, i, j) >= Len(m.elems) THEN PANIC
    ELSE Returns(m.elems[get_index(m, i, j) + 1])

\* Index and IndexMut.
Idx(m, i, j) == m.elems[get_index(m, i, j) + 1]
IdxSet(m, i, j, v) == [m EXCEPT !.elems[get_index(m, i, j) + 1] = v]

\* A Vec<T> collected from the values f[1], ..., f[n].
Vec(f) == f \o <<>>

\* The loops push f(j, i) for j in 0..height, i in 0..width.
new_fn(f(_, _), width, height) ==
    [elems  |-> Vec([k \in 1..(width * height) |-> f((k - 1) \div width, (k - 1) % width)]),
     width  |-> width,
     height |-> height]

RECURSIVE Concat(_)
Concat(rows) == IF rows = <<>> THEN <<>> ELSE Head(rows) \o Concat(Tail(rows))

Matrix_new(rows) ==
    [elems |-> Concat(rows), width |-> Len(rows), height |-> Len(rows[1])]

Matrix_eq_real(a, b) ==
    \A k \in 1..(IF Len(a.elems) < Len(b.elems) THEN Len(a.elems) ELSE Len(b.elems)) :
        Abs(a.elems[k] - b.elems[k]) <= EPSILON

zeros(width, height) == LET f(i, j) == 0 IN new_fn(f, width, height)
eye(size) == LET f(i, j) == IF i = j THEN ONE ELSE 0 IN new_fn(f, size, size)

transpose(m) == LET f(i, j) == Idx(m, j, i) IN new_fn(f, m.width, m.height)

Matrix_translate(x, y, z) == IdxSet(IdxSet(IdxSet(eye(4), 0, 3, x), 1, 3, y), 2, 3, z)
Matrix_scale(x, y, z) == IdxSet(IdxSet(IdxSet(eye(4), 0, 0, x), 1, 1, y), 2, 2, z)

Matrix_rotation_x(r) ==
    IdxSet(IdxSet(IdxSet(IdxSet(eye(4), 1, 1, cos(r)), 1, 2, 0 - sin(r)), 2, 1, sin(r)), 2, 2, cos(r))
Matrix_rotation_y(r) ==
    IdxSet(IdxSet(IdxSet(IdxSet(eye(4), 0, 0, cos(r)), 0, 2, sin(r)), 2, 0, 0 - sin(r)), 2, 2, cos(r))
Matrix_rotation_z(r) ==
    IdxSet(IdxSet(IdxSet(IdxSet(eye(4), 0, 0, cos(r)), 0, 1, 0 - sin(r)), 1, 0, sin(r)), 1, 1, cos(r))

\* Row `row` and column `col` removed: source element (r, c) lands at
\* (r - [r > row], c - [c > col]).
submatrix(m, row, col) ==
    LET f(r, c) == Idx(m, IF r < row THEN r ELSE r + 1, IF c < col THEN c ELSE c + 1)
    IN  new_fn(f, m.width - 1, m.height - 1)

RECURSIVE SumTo(_, _)
\* f[0] + ... + f[n - 1], the iterator's sum().
SumTo(f, n) == IF n = 0 THEN 0 ELSE SumTo(f, n - 1) + f[n - 1]

RECURSIVE det(_)
RECURSIVE cofactor(_, _, _)
det(m) ==
    IF m.width = 1 /\ m.height = 1 THEN Idx(m, 0, 0)
    ELSE IF m.width = 2 /\ m.height = 2
         THEN FMul(Idx(m, 0, 0), Idx(m, 1, 1)) - FMul(Idx(m, 0, 1), Idx(m, 1, 0))
    ELSE SumTo([col \in 0..(m.width - 1) |-> FMul(cofactor(m, 0, col), Idx(m, 0, col))],
               m.width)

cofactor(m, row, col) ==
    LET sign == IF (row + col) % 2 = 0 THEN ONE ELSE 0 - ONE
    IN  FMul(det(submatrix(m, row, col)), sign)

mirror(m, row, col) == det(submatrix(m, row, col))

\* new_fn_option returns None at the first element whose closure returns
\* None; the closure returns None exactly when |d| < epsilon.
inverse(m) ==
    LET d == det(m)
        f(i, j) == FDiv(cofactor(m, j, i), d)
    IN  IF m.width * m.height > 0 /\ Abs(d) < EPSILON
        THEN NONE
        ELSE Some(new_fn(f, m.width, m.height))

unwrap(o) == o.val

\* The product taking the entries of the right operand by column and row
\* swapped.
Matrix_mul_right_transposed(a, b) ==
    LET f(i, j) == SumTo([k \in 0..(a.height - 1) |-> FMul(Idx(a, i, k), Idx(b, j, k))],
                         a.height)
    IN  new_fn(f, a.width, b.height)

\* &Matrix * &Matrix
Matrix_mul(a, b) ==
    LET f(i, j) == SumTo([k \in 0..(a.height - 1) |-> FMul(Idx(a, i, k), Idx(b, k, j))],
                         a.height)
    IN  new_fn(f, a.width, b.height)

\* &Matrix * Tuple
Matrix_mul_tuple(m, t) ==
    Vec([i \in 1..m.height |->
            SumTo([j \in 0..(m.width - 1) |-> FMul(Idx(m, i - 1, j), t[j + 1])], m.width)])

\* view_transform taking left as cross(up, forward).
view_transform_left_swapped(from, to, up) ==
    LET up_n == normalize(up)
        forward == normalize(Tuple_sub(to, from))
        left == cross(up_n, forward)
        real_up == cross(left, forward)
    IN  Matrix_mul(Matrix_new(<< <<left[1], left[2], left[3], 0>>,
                                 <<real_up[1], real_up[2], real_up[3], 0>>,
                                 <<0 - forward[1], 0 - forward[2], 0 - forward[3], 0>>,
                                 <<0, 0, 0, ONE>> >>),
                   Matrix_translate(0 - from[1], 0 - from[2], 0 - from[3]))

view_transform(from, to, up) ==
    LET up_n == normalize(up)
        forward == normalize(Tuple_sub(to, from))
        left == cross(forward, up_n)
        real_up == cross(left, forward)
    IN  Matrix_mul(Matrix_new(<< <<left[1], left[2], left[3], 0>>,
                                 <<real_up[1], real_up[2], real_up[3], 0>>,
                                 <<0 - forward[1], 0 - forward[2], 0 - forward[3], 0>>,
                                 <<0, 0, 0, ONE>> >>),
                   Matrix_translate(0 - from[1], 0 - from[2], 0 - from[3]))

\* TransformBuilder(Matrix): every call multiplies the new transform onto
\* the left of the accumulated matrix.
TB_identity == eye(4)
\* translate multiplying onto the right of the accumulated matrix.
TB_translate_on_right(self, x, y, z) == Matrix_mul(self, Matrix_translate(x, y, z))
TB_translate(self, x, y, z) == Matrix_mul(Matrix_translate(x, y, z), self)
TB_scale(self, x, y, z) == Matrix_mul(Matrix_scale(x, y, z), self)
TB_rotation_x(self, r) == Matrix_mul(Matrix_rotation_x(r), self)
TB_rotation_y(self, r) == Matrix_mul(Matrix_rotation_y(r), self)
TB_rotation_z(self, r) == Matrix_mul(Matrix_rotation_z(r), self)
TB_build(self) == self

\* --------------------------------------------------------------------- rays
Ray_new(origin, dir) == [origin |-> origin, dir |-> normalize(dir)]
Ray_pos(r, t) == Tuple_add(r.origin, Tuple_mul(r.dir, t))
\* No renormalisation of the direction.
\* transform building its result with Ray::new, which normalizes.
Ray_transform_normalizes(r, m) ==
    Ray_new(Matrix_mul_tuple(m, r.origin), Matrix_mul_tuple(m, r.dir))

Ray_transform(r, m) ==
    [origin |-> Matrix_mul_tuple(m, r.origin), dir |-> Matrix_mul_tuple(m, r.dir)]

\* ---------------------------------------------------------------- materials
Material_new ==
    [color |-> Color_new(ONE, ONE, ONE), ambient |-> 100, diffuse |-> 900,
     specular |-> 900, shininess |-> 200 * ONE]

PointLight_new(intensity, pos) == [intensity |-> intensity, pos |-> pos]

\* lightning reflecting the light direction itself instead of its negation.
lightning_reflects_lightv(material, light, pos, eyev, normalv, in_shadow) ==
    LET effective_color == Color_mul(material.color, light.intensity)
        lightv == normalize(Tuple_sub(light.pos, pos))
        ambient == Color_scale(effective_color, material.ambient)
        light_dot_normal == dot(lightv, normalv)
        diffuse == Color_scale(Color_scale(effective_color, material.diffuse), light_dot_normal)
        reflectv == reflect(lightv, normalv)
        reflect_dot_eye == dot(reflectv, eyev)
        specular == IF reflect_dot_eye < 0 THEN BLACK
                    ELSE Color_scale(Color_scale(light.intensity, material.specular),
                                     powf(reflect_dot_eye, material.shininess))
    IN  IF in_shadow THEN ambient
        ELSE IF light_dot_normal < 0 THEN Color_add(Color_add(ambient, BLACK), BLACK)
        ELSE Color_add(Color_add(ambient, diffuse), specular)

\* lightning whose shadowed result leaves the light's intensity out.
lightning_shadow_unlit(material, light, pos, eyev, normalv, in_shadow) ==
    LET effective_color == Color_mul(material.color, light.intensity)
        lightv == normalize(Tuple_sub(light.pos, pos))
        ambient == Color_scale(effective_color, material.ambient)
        light_dot_normal == dot(lightv, normalv)
        diffuse == Color_scale(Color_scale(effective_color, material.diffuse), light_dot_normal)
        reflectv == reflect(Tuple_neg(lightv), normalv)
        reflect_dot_eye == dot(reflectv, eyev)
        specular == IF reflect_dot_eye < 0 THEN BLACK
                    ELSE Color_scale(Color_scale(light.intensity, material.specular),
                                     powf(reflect_dot_eye, material.shininess))
    IN  IF in_shadow THEN Color_scale(material.color, material.ambient)
        ELSE IF light_dot_normal < 0 THEN Color_add(Color_add(ambient, BLACK), BLACK)
        ELSE Color_add(Color_add(ambient, diffuse), specular)

\* lightning without the test of the side the light is on.
lightning_lit_from_behind(material, light, pos, eyev, normalv, in_shadow) ==
    LET effective_color == Color_mul(material.color, light.intensity)
        lightv == normalize(Tuple_sub(light.pos, pos))
        ambient == Color_scale(effective_color, material.ambient)
        light_dot_normal == dot(lightv, normalv)
        diffuse == Color_scale(Color_scale(effective_color, material.diffuse), light_dot_normal)
        reflectv == reflect(Tuple_neg(lightv), normalv)
        reflect_dot_eye == dot(reflectv, eyev)
        specular == IF reflect_dot_eye < 0 THEN BLACK
                    ELSE Color_scale(Color_scale(light.intensity, material.specular),
                                     powf(reflect_dot_eye, material.shininess))
    IN  IF in_shadow THEN ambient
        ELSE Color_add(Color_add(ambient, diffuse), specular)

lightning(material, light, pos, eyev, normalv, in_shadow) ==
    LET effective_color == Color_mul(material.color, light.intensity)
        lightv == normalize(Tuple_sub(light.pos, pos))
        ambient == Color_scale(effective_color, material.ambient)
        light_dot_normal == dot(lightv, normalv)
        diffuse == Color_scale(Color_scale(effective_color, material.diffuse), light_dot_normal)
        reflectv == reflect(Tuple_neg(lightv), normalv)
        reflect_dot_eye == dot(reflectv, eyev)
        specular == IF reflect_dot_eye < 0 THEN BLACK
                    ELSE Color_scale(Color_scale(light.intensity, material.specular),
                                     powf(reflect_dot_eye, material.shininess))
    IN  IF in_shadow THEN ambient
        ELSE IF light_dot_normal < 0 THEN Color_add(Color_add(ambient, BLACK), BLACK)
        ELSE Color_add(Color_add(ambient, diffuse), specular)

\* ------------------------------------------------------------------ objects
\* Object { shape, inv_transform, material }; the only shape is the sphere.
Object_new == [shape |-> "Sphere", inv_transform |-> eye(4), material |-> Material_new]

\* apply_transform composing the new placement with the stored one.
apply_transform_composing(self, transform) ==
    [self EXCEPT !.inv_transform = Matrix_mul(@, unwrap(inverse(transform)))]

apply_transform(self, transform) ==
    [self EXCEPT !.inv_transform = unwrap(inverse(transform))]

\* apply_transform storing the identity when there is no inverse.
Call_apply_transform_substitutes(self, transform) ==
    IF inverse(transform) = NONE
    THEN [tag |-> "Return", self |-> [self EXCEPT !.inv_transform = eye(4)]]
    ELSE [tag |-> "Return", self |-> apply_transform(self, transform)]

\* apply_transform as a call on &mut self: unwrap() panics on None before
\* the assignment, and the object is as it was; otherwise the call returns
\* and the object holds the new inverse.
Call_apply_transform(self, transform) ==
    IF inverse(transform) = NONE
    THEN [tag |-> "Panic", self |-> self]
    ELSE [tag |-> "Return", self |-> apply_transform(self, transform)]

\* Sphere::hit returning the farther parameter first.
Sphere_hit_far_first(r) ==
    LET sphere_to_ray == Tuple_sub(r.origin, new_point(0, 0, 0))
        a == dot(r.dir, r.dir)
        b == FMul(2 * ONE, dot(r.dir, sphere_to_ray))
        c == dot(sphere_to_ray, sphere_to_ray) - ONE
        disc == FMul(b, b) - FMul(FMul(4 * ONE, a), c)
        t1 == FDiv(0 - b - FSqrt(disc), FMul(2 * ONE, a))
        t2 == FDiv(0 - b + FSqrt(disc), FMul(2 * ONE, a))
    IN  IF disc < 0 THEN <<>> ELSE <<t2, t1>>

\* Sphere::hit: the parameters at which r meets the unit sphere.
Sphere_hit(r) ==
    LET sphere_to_ray == Tuple_sub(r.origin, new_point(0, 0, 0))
        a == dot(r.dir, r.dir)
        b == FMul(2 * ONE, dot(r.dir, sphere_to_ray))
        c == dot(sphere_to_ray, sphere_to_ray) - ONE
        disc == FMul(b, b) - FMul(FMul(4 * ONE, a), c)
        t1 == FDiv(0 - b - FSqrt(disc), FMul(2 * ONE, a))
        t2 == FDiv(0 - b + FSqrt(disc), FMul(2 * ONE, a))
    IN  IF disc < 0 THEN <<>> ELSE <<t1, t2>>

Sphere_normal_at(pt) == normalize(Tuple_sub(pt, new_point(0, 0, 0)))

\* Hitrecord { hit, obj }: obj, a reference in the source, is the object's
\* position in the world's object list.
Hitrecord_new(hit, obj) == [hit |-> hit, obj |-> obj]
Hitrecord_new_vec(hits, obj) == Vec([k \in 1..Len(hits) |-> Hitrecord_new(hits[k], obj)])

\* Object::hit handing the shape a transformed ray of unit direction.
Object_hit_unit_ray(self, ref, r) ==
    Hitrecord_new_vec(Sphere_hit(Ray_transform_normalizes(r, self.inv_transform)), ref)

\* Object::hit for the object `self`, referred to as `ref`.
Object_hit(self, ref, r) ==
    Hitrecord_new_vec(Sphere_hit(Ray_transform(r, self.inv_transform)), ref)

\* normal_at leaving w as the transposed inverse gives it.
Object_normal_at_keeps_w(self, pt) ==
    LET obj_pt == Matrix_mul_tuple(self.inv_transform, pt)
        normal == Matrix_mul_tuple(transpose(self.inv_transform), Sphere_normal_at(obj_pt))
    IN  Tuple_div(normal, magnitude(normal))

Object_normal_at(self, pt) ==
    LET obj_pt == Matrix_mul_tuple(self.inv_transform, pt)
        normal == Matrix_mul_tuple(transpose(self.inv_transform), Sphere_normal_at(obj_pt))
    IN  normalize([normal EXCEPT ![4] = 0])

RECURSIVE MinBy_last(_, _)
\* min_by keeping the later of two records of equal parameter.
MinBy_last(best, rest) ==
    IF rest = <<>> THEN best
    ELSE MinBy_last(IF best.hit >= Head(rest).hit THEN Head(rest) ELSE best, Tail(rest))

\* Iterator::min_by keeps the earlier of two records unless it is greater.
RECURSIVE MinBy(_, _)
MinBy(best, rest) ==
    IF rest = <<>> THEN best
    ELSE MinBy(IF best.hit > Head(rest).hit THEN Head(rest) ELSE best, Tail(rest))

find_hit(hits) ==
    LET valid == SelectSeq(hits, LAMBDA h : h.hit >= 0)
    IN  IF valid = <<>> THEN NONE ELSE Some(MinBy(Head(valid), Tail(valid)))

RECURSIVE InsertByHit_before_equal(_, _)
\* A sort that places a record before the earlier records of equal hit.
InsertByHit_before_equal(sorted, h) ==
    IF sorted = <<>> THEN <<h>>
    ELSE IF Head(sorted).hit < h.hit
         THEN <<Head(sorted)>> \o InsertByHit_before_equal(Tail(sorted), h)
    ELSE <<h>> \o sorted

\* slice::sort_by with the comparison of the hits: a stable sort.
RECURSIVE InsertByHit(_, _)
InsertByHit(sorted, h) ==
    IF sorted = <<>> THEN <<h>>
    ELSE IF Head(sorted).hit <= h.hit THEN <<Head(sorted)>> \o InsertByHit(Tail(sorted), h)
    ELSE <<h>> \o sorted

RECURSIVE sort_by_hit(_)
sort_by_hit(v) ==
    IF v = <<>> THEN <<>>
    ELSE InsertByHit(sort_by_hit(SubSeq(v, 1, Len(v) - 1)), v[Len(v)])

\* -------------------------------------------------------------------- world
\* World { lights, objects }; the operators take the two fields.
RECURSIVE FlatMapHits(_, _, _)
\* The hit records of objects k..Len(objs), concatenated in object order.
FlatMapHits(objs, k, ray) ==
    IF k > Len(objs) THEN <<>>
    ELSE Object_hit(objs[k], k, ray) \o FlatMapHits(objs, k + 1, ray)

\* intersect_world without the sort.
intersect_world_unsorted(objs, ray) == FlatMapHits(objs, 1, ray)

intersect_world(objs, ray) == sort_by_hit(FlatMapHits(objs, 1, ray))

\* is_shadowed without the comparison with the distance to the light.
is_shadowed_any_hit(objs, point, light) ==
    LET v == Tuple_sub(light.pos, point)
        dir == normalize(v)
        r == Ray_new(point, dir)
        h == find_hit(intersect_world(objs, r))
    IN  h # NONE

is_shadowed(objs, point, light) ==
    LET v == Tuple_sub(light.pos, point)
        dist == magnitude(v)
        dir == normalize(v)
        r == Ray_new(point, dir)
        h == find_hit(intersect_world(objs, r))
    IN  IF h # NONE THEN unwrap(h).hit < dist ELSE FALSE

\* prepare_computations testing the sign of dot(normal, ray.dir) instead of
\* dot(normal, eyev).
prepare_computations_along_ray(objs, hr, ray) ==
    LET pt == Ray_pos(ray, hr.hit)
        normalv == Object_normal_at(objs[hr.obj], pt)
        eyev == Tuple_neg(ray.dir)
        inside == dot(normalv, ray.dir) < 0
    IN  [hit |-> hr.hit, obj |-> hr.obj, point |-> pt,
         over_point |-> Tuple_add(pt, Tuple_mul(normalv, 10)),
         eyev |-> eyev,
         normalv |-> IF inside THEN Tuple_neg(normalv) ELSE normalv,
         inside |-> inside]

prepare_computations(objs, hr, ray) ==
    LET pt == Ray_pos(ray, hr.hit)
        normalv == Object_normal_at(objs[hr.obj], pt)
        eyev == Tuple_neg(ray.dir)
        inside == dot(normalv, eyev) < 0
    IN  [hit |-> hr.hit, obj |-> hr.obj, point |-> pt,
         over_point |-> Tuple_add(pt, Tuple_mul(normalv, 10)),
         eyev |-> eyev,
         normalv |-> IF inside THEN Tuple_neg(normalv) ELSE normalv,
         inside |-> inside]

RECURSIVE FoldLights(_, _, _, _, _)
\* The fold of shade_hit over lights k..Len(lts), starting from acc.
FoldLights(lts, objs, comps, k, acc) ==
    IF k > Len(lts) THEN acc
    ELSE LET in_shadow == is_shadowed(objs, comps.over_point, lts[k])
             c == lightning(objs[comps.obj].material, lts[k], comps.over_point,
                            comps.eyev, comps.normalv, in_shadow)
         IN  FoldLights(lts, objs, comps, k + 1, Color_add(acc, c))

\* shade_hit folding from the second light on.
shade_hit_skips_first(lts, objs, comps) == FoldLights(lts, objs, comps, 2, BLACK)

shade_hit(lts, objs, comps) == FoldLights(lts, objs, comps, 1, BLACK)

color_at(lts, objs, ray) ==
    LET hrs == intersect_world(objs, ray)
    IN  IF Len(hrs) = 0 THEN BLACK
        ELSE shade_hit(lts, objs, prepare_computations(objs, hrs[1], ray))

\* World::new_default
Default_light == PointLight_new(Color_new(ONE, ONE, ONE), new_point(0 - 10 * ONE, 10 * ONE, 0 - 10 * ONE))
Default_s1 ==
    [Object_new EXCEPT !.material.color = Color_new(800, ONE, 600),
                       !.material.diffuse = 700,
                       !.material.specular = 200]
Default_s2 == apply_transform(Object_new, Matrix_scale(500, 500, 500))

\* ------------------------------------------------------------------- camera
\* f32::tan at the half angles of the fields of view in use.
tan(r) ==
    CASE r = 0 -> 0
      [] Abs(r - PI \div 6) <= EPSILON -> 577
      [] Abs(r - QUARTER_PI) <= EPSILON -> ONE
      [] Abs(r - PI \div 3) <= EPSILON -> 1732

\* Camera::new giving tan(fov/2) to the dimension with fewer pixels.
Camera_new_fov_on_fewer(hsize, vsize, fov) ==
    LET half_view == tan(FDiv(fov, 2 * ONE))
        aspect == FDiv(hsize, vsize)
        half_width == IF aspect >= ONE THEN FMul(half_view, aspect) ELSE half_view
        half_height == IF aspect >= ONE THEN half_view ELSE FDiv(half_view, aspect)
        pixel_size == FDiv(FMul(half_width, 2 * ONE), hsize)
    IN  [hsize |-> hsize, vsize |-> vsize, fov |-> fov, inv_transform |-> eye(4),
         half_width |-> half_width, half_height |-> half_height, pixel_size |-> pixel_size]

Camera_new(hsize, vsize, fov) ==
    LET half_view == tan(FDiv(fov, 2 * ONE))
        aspect == FDiv(hsize, vsize)
        half_width == IF aspect >= ONE THEN half_view ELSE FMul(half_view, aspect)
        half_height == IF aspect >= ONE THEN FDiv(half_view, aspect) ELSE half_view
        pixel_size == FDiv(FMul(half_width, 2 * ONE), hsize)
    IN  [hsize |-> hsize, vsize |-> vsize, fov |-> fov, inv_transform |-> eye(4),
         half_width |-> half_width, half_height |-> half_height, pixel_size |-> pixel_size]

\* ray_for_pixel aiming at the corner of the pixel instead of its centre.
ray_for_pixel_corner(self, px, py) ==
    LET xoffset == FMul(px * ONE, self.pixel_size)
        yoffset == FMul(py * ONE, self.pixel_size)
        worldx == self.half_width - xoffset
        worldy == self.half_height - yoffset
        pixel == Matrix_mul_tuple(self.inv_transform, new_point(worldx, worldy, 0 - ONE))
        origin == Matrix_mul_tuple(self.inv_transform, new_point(0, 0, 0))
    IN  Ray_new(origin, Tuple_sub(pixel, origin))

ray_for_pixel(self, px, py) ==
    LET xoffset == FMul(px * ONE + 500, self.pixel_size)
        yoffset == FMul(py * ONE + 500, self.pixel_size)
        worldx == self.half_width - xoffset
        worldy == self.half_height - yoffset
        pixel == Matrix_mul_tuple(self.inv_transform, new_point(worldx, worldy, 0 - ONE))
        origin == Matrix_mul_tuple(self.inv_transform, new_point(0, 0, 0))
    IN  Ray_new(origin, Tuple_sub(pixel, origin))

render_pixel(self, lts, objs, px, py) == color_at(lts, objs, ray_for_pixel(self, px, py))

\* ------------------------------------------------------------------- canvas
\* A String is the sequence of its characters.
SCALING_FACTOR == 255

clamp(x, min, max) == IF x < min THEN min ELSE IF x > max THEN max ELSE x

\* u32::to_string
RECURSIVE to_string(_)
to_string(n) ==
    LET digit == <<"0", "1", "2", "3", "4", "5", "6", "7", "8", "9">>[(n % 10) + 1]
    IN  IF n < 10 THEN <<digit>> ELSE Append(to_string(n \div 10), digit)

\* `as u32` of a non-negative f32: the fraction is dropped.
as_u32(x) == x \div ONE

\* The closure of write_ppm_fn_long on the color f(x, y): one line of text.
pixel_string(color) ==
    LET scaled == Color_scale(color, SCALING_FACTOR * ONE)
        c == <<clamp(scaled[1], 0, SCALING_FACTOR * ONE) + 500,
               clamp(scaled[2], 0, SCALING_FACTOR * ONE) + 500,
               clamp(scaled[3], 0, SCALING_FACTOR * ONE) + 500>>
    IN  to_string(as_u32(c[1])) \o <<" ">> \o to_string(as_u32(c[2])) \o <<" ">>
            \o to_string(as_u32(c[3])) \o <<"\n">>

\* format!("P3 {} {} {}", w, h, SCALING_FACTOR)
ppm_header(w, h) ==
    <<"P", "3", " ">> \o to_string(w) \o <<" ">> \o to_string(h) \o <<" ">>
        \o to_string(SCALING_FACTOR)

\* format!("{}\n{}\n", header, content)
ppm_text(header, content) == header \o <<"\n">> \o content \o <<"\n">>

\* collect() of a parallel iterator over a range: the item of index k goes to
\* position k of the Vec, whenever the worker that computes it finishes.
\* Here the items are appended in the order in which they finish.
par_collect_in_finish_order(slots, k, item) ==
    LET free == CHOOSE i \in 1..Len(slots) :
                    slots[i] = NONE /\ \A j \in 1..(i - 1) : slots[j] # NONE
    IN  [slots EXCEPT ![free] = Some(item)]

par_collect(slots, k, item) == [slots EXCEPT ![k + 1] = Some(item)]

\* Vec<String>::concat of the collected items.
RECURSIVE concat_strings(_)
concat_strings(slots) ==
    IF slots = <<>> THEN <<>> ELSE unwrap(Head(slots)) \o concat_strings(Tail(slots))

\* ------------------------------------------------------------ state machine
\* lights, objects: the fields of the World under construction or in use.
\* op, args, ret: the last operation called, its arguments and its result.
VARIABLES lights, objects, op, args, ret

vars == <<lights, objects, op, args, ret>>

MaxObjects == 2
MaxLights == 2

\* The objects scene assembly builds: Object::new, then apply_transform and
\* assignments to the public material field.
S1_ambient == [Default_s1 EXCEPT !.material.ambient = ONE]
S2_ambient == [Default_s2 EXCEPT !.material.ambient = ONE]
ObjectKinds == {Default_s1, Default_s2, S1_ambient, S2_ambient}

Second_light == PointLight_new(Color_new(400, 700, 200), new_point(0, 0, 3 * ONE))
LightKinds == {Default_light, Second_light}

\* The rays of the queries, each built by Ray::new(origin, dir).
RayInputs ==
    { Ray_new(new_point(0, 0, 0 - 5 * ONE), new_vector(0, 0, ONE)),
      Ray_new(new_point(0, 0, 750), new_vector(0, 0, 0 - ONE)),
      Ray_new(new_point(0, 0, 5 * ONE), new_vector(0, 0, 2 * ONE)),
      Ray_new(new_point(0, 0, 0 - 5 * ONE), new_vector(0, ONE, 0)),
      Ray_new(new_point(0, ONE, 0 - 5 * ONE), new_vector(0, 0, ONE)),
      Ray_new(new_point(0, 0, 0), new_vector(0, 0, ONE)) }

PointInputs ==
    { new_point(0, 10 * ONE, 0),
      new_point(10 * ONE, 0 - 10 * ONE, 10 * ONE),
      new_point(0, 0, 5 * ONE),
      new_point(0, 0, 0 - 5 * ONE) }

NoValue == <<>>

\* The queries take &self and return a value: they leave the World as it
\* was, so a query made after another query meets the same World as one made
\* right after scene assembly.  The model keeps one query result per state
\* and takes each query from a state scene assembly left.
Assembled == op \in {"new", "new_default", "add_light", "add_object"}

\* World::new()
Init ==
    /\ lights = <<>>
    /\ objects = <<>>
    /\ op = "new"
    /\ args = NoValue
    /\ ret = NoValue

\* World::new_default()
NewDefault ==
    /\ lights' = <<Default_light>>
    /\ objects' = <<Default_s1, Default_s2>>
    /\ op' = "new_default"
    /\ args' = NoValue
    /\ ret' = NoValue

AddLight(l) ==
    /\ Len(lights) < MaxLights
    /\ lights' = Append(lights, l)
    /\ op' = "add_light"
    /\ args' = NoValue
    /\ ret' = NoValue
    /\ UNCHANGED objects

AddObject(obj) ==
    /\ Len(objects) < MaxObjects
    /\ objects' = Append(objects, obj)
    /\ op' = "add_object"
    /\ args' = NoValue
    /\ ret' = NoValue
    /\ UNCHANGED lights

IntersectWorld(ray) ==
    /\ Assembled
    /\ op' = "intersect_world"
    /\ args' = [ray |-> ray]
    /\ ret' = intersect_world(objects, ray)
    /\ UNCHANGED <<lights, objects>>

IsShadowed(point, light) ==
    /\ Assembled
    /\ op' = "is_shadowed"
    /\ args' = [point |-> point, light |-> light]
    /\ ret' = is_shadowed(objects, point, light)
    /\ UNCHANGED <<lights, objects>>

\* shade_hit on the hit context of record k of the ray's intersections.
ShadeHit(ray, k) ==
    /\ Assembled
    /\ k <= Len(intersect_world(objects, ray))
    /\ LET comps == prepare_computations(objects, intersect_world(objects, ray)[k], ray)
       IN  /\ args' = [comps |-> comps]
           /\ ret' = shade_hit(lights, objects, comps)
    /\ op' = "shade_hit"
    /\ UNCHANGED <<lights, objects>>

ColorAt(ray) ==
    /\ Assembled
    /\ op' = "color_at"
    /\ args' = [ray |-> ray]
    /\ ret' = color_at(lights, objects, ray)
    /\ UNCHANGED <<lights, objects>>

Next ==
    \/ NewDefault
    \/ \E l \in LightKinds : AddLight(l)
    \/ \E obj \in ObjectKinds : AddObject(obj)
    \/ \E ray \in RayInputs : IntersectWorld(ray)
    \/ \E point \in PointInputs, light \in LightKinds : IsShadowed(point, light)
    \/ \E ray \in RayInputs, k \in 1..(2 * MaxObjects) : ShadeHit(ray, k)
    \/ \E ray \in RayInputs : ColorAt(ray)

Spec == Init /\ [][Next]_vars

\* ------------------------------------------------ find_hit on any records
MaxHits == 3

HitValues == {0 - ONE, 0, ONE, 2 * ONE}
HitRecords == {Hitrecord_new(h, o) : h \in HitValues, o \in 1..2}
HitSeqs == UNION {[1..n -> HitRecords] : n \in 0..MaxHits}

InitFindHit ==
    /\ lights = <<>>
    /\ objects = <<>>
    /\ op = "hits"
    /\ args \in {[hits |-> hs] : hs \in HitSeqs}
    /\ ret = NoValue

FindHit ==
    /\ op = "hits"
    /\ op' = "find_hit"
    /\ ret' = find_hit(args.hits)
    /\ UNCHANGED <<lights, objects, args>>

NextFindHit == FindHit

SpecFindHit == InitFindHit /\ [][NextFindHit]_vars

\* ------------------------------------------- the reflectance function alone
MaterialInputs ==
    { Material_new,
      Default_s1.material,
      [Material_new EXCEPT !.color = Color_new(ONE, 200, 500), !.ambient = 300,
                           !.diffuse = 500, !.specular = 400, !.shininess = 2 * ONE] }

LightInputs ==
    { PointLight_new(Color_new(ONE, ONE, ONE), new_point(0, 0, 0 - 10 * ONE)),
      PointLight_new(Color_new(ONE, ONE, ONE), new_point(0, 10 * ONE, 0 - 10 * ONE)),
      PointLight_new(Color_new(400, 700, 200), new_point(0, 0, 10 * ONE)) }

PosInputs == {new_point(0, 0, 0), new_point(0, 0, 0 - 10 * ONE)}

EyeInputs ==
    { new_vector(0, 0, 0 - ONE), new_vector(0, 707, 0 - 707), new_vector(0, 0 - 707, 0 - 707) }

NormalInputs == {new_vector(0, 0, 0 - ONE), new_vector(0, 707, 0 - 707)}

\* A light at the shaded point itself gives a NaN light direction, which the
\* function reads only when the point is not in shadow.
LightningInputs ==
    { [material |-> m, light |-> l, pos |-> p, eyev |-> e, normalv |-> n, in_shadow |-> sh] :
        m \in MaterialInputs, l \in LightInputs, p \in PosInputs, e \in EyeInputs,
        n \in NormalInputs, sh \in BOOLEAN }

InitLightning ==
    /\ lights = <<>>
    /\ objects = <<>>
    /\ op = "inputs"
    /\ args \in {a \in LightningInputs : a.in_shadow \/ a.light.pos # a.pos}
    /\ ret = NoValue

Lightning ==
    /\ op = "inputs"
    /\ op' = "lightning"
    /\ ret' = lightning(args.material, args.light, args.pos, args.eyev, args.normalv,
                        args.in_shadow)
    /\ UNCHANGED <<lights, objects, args>>

NextLightning == Lightning

SpecLightning == InitLightning /\ [][NextLightning]_vars

\* ------------------------------------------------------ TransformBuilder
\* ret is the builder, args the calls made on it so far, in call order.
MaxCalls == 3

Vec3Inputs == {<<ONE, 2 * ONE, 3 * ONE>>, <<0 - 2 * ONE, 0, ONE>>}
ScaleInputs == {<<2 * ONE, 3 * ONE, ONE>>, <<0 - ONE, ONE, 2 * ONE>>}
AngleInputs == {HALF_PI, 0 - HALF_PI, PI}

InitBuilder ==
    /\ lights = <<>>
    /\ objects = <<>>
    /\ op = "identity"
    /\ args = <<>>
    /\ ret = TB_identity

Building == op # "build" /\ Len(args) < MaxCalls

BuilderTranslate(v) ==
    /\ Building
    /\ op' = "translate"
    /\ args' = Append(args, [kind |-> "translate", v |-> v])
    /\ ret' = TB_translate(ret, v[1], v[2], v[3])
    /\ UNCHANGED <<lights, objects>>

BuilderScale(v) ==
    /\ Building
    /\ op' = "scale"
    /\ args' = Append(args, [kind |-> "scale", v |-> v])
    /\ ret' = TB_scale(ret, v[1], v[2], v[3])
    /\ UNCHANGED <<lights, objects>>

BuilderRotationX(r) ==
    /\ Building
    /\ op' = "rotation_x"
    /\ args' = Append(args, [kind |-> "rotation_x", r |-> r])
    /\ ret' = TB_rotation_x(ret, r)
    /\ UNCHANGED <<lights, objects>>

BuilderRotationY(r) ==
    /\ Building
    /\ op' = "rotation_y"
    /\ args' = Append(args, [kind |-> "rotation_y", r |-> r])
    /\ ret' = TB_rotation_y(ret, r)
    /\ UNCHANGED <<lights, objects>>

BuilderRotationZ(r) ==
    /\ Building
    /\ op' = "rotation_z"
    /\ args' = Append(args, [kind |-> "rotation_z", r |-> r])
    /\ ret' = TB_rotation_z(ret, r)
    /\ UNCHANGED <<lights, objects>>

BuilderBuild ==
    /\ op # "build"
    /\ op' = "build"
    /\ ret' = TB_build(ret)
    /\ UNCHANGED <<lights, objects, args>>

NextBuilder ==
    \/ \E v \in Vec3Inputs : BuilderTranslate(v)
    \/ \E v \in ScaleInputs : BuilderScale(v)
    \/ \E r \in AngleInputs : BuilderRotationX(r)
    \/ \E r \in AngleInputs : BuilderRotationY(r)
    \/ \E r \in AngleInputs : BuilderRotationZ(r)
    \/ BuilderBuild

SpecBuilder == InitBuilder /\ [][NextBuilder]_vars

\* --------------------------------------------------------- Matrix::inverse
Entries == {0 - ONE, 0, ONE, 2 * ONE}

Square1 == {Matrix_new(<<<<a>>>>) : a \in {0 - ONE, 0, 500, ONE, 2 * ONE, 4 * ONE}}
Square2 == {Matrix_new(<<<<a, b>>, <<c, d>>>>) : a \in Entries, b \in Entries, c \in Entries, d \in Entries}
Square3 ==
    {Matrix_new(<<<<d, a, b>>, <<0, ONE, c>>, <<0, 0, ONE>>>>) :
        a \in {0, ONE}, b \in {0, 2 * ONE}, c \in {0, 0 - ONE}, d \in {0, ONE, 2 * ONE}}
Square4 ==
    { eye(4), zeros(4, 4),
      Matrix_translate(ONE, 2 * ONE, 3 * ONE),
      Matrix_scale(2 * ONE, 2 * ONE, 2 * ONE),
      Matrix_scale(500, 500, 500),
      Matrix_scale(ONE, 0, ONE),
      Matrix_rotation_x(HALF_PI),
      Matrix_rotation_y(0 - HALF_PI),
      Matrix_rotation_z(PI),
      Matrix_mul(Matrix_translate(ONE, 0, 0 - 2 * ONE), Matrix_scale(2 * ONE, ONE, ONE)),
      Matrix_mul(Matrix_rotation_x(HALF_PI), Matrix_translate(0, 0, 5 * ONE)) }

\* Matrices whose determinant is epsilon or next to it.
NearSingular ==
    {Matrix_new(<<<<a, 0>>, <<0, ONE>>>>) : a \in {EPSILON, 0 - EPSILON, 2 * EPSILON}}
        \cup {Matrix_scale(EPSILON, ONE, ONE), Matrix_scale(ONE, 0 - EPSILON, ONE)}

\* The matrices whose inverse has all its entries on the grid.
MatrixInputs ==
    {m \in Square1 \cup Square2 \cup Square3 \cup Square4 \cup NearSingular :
        Abs(det(m)) \in {0, EPSILON, 2 * EPSILON, 500, ONE, 2 * ONE, 4 * ONE, 125, 8 * ONE}}

InitInverse ==
    /\ lights = <<>>
    /\ objects = <<>>
    /\ op = "matrix"
    /\ args \in {[m |-> m] : m \in MatrixInputs}
    /\ ret = NoValue

Inverse ==
    /\ op = "matrix"
    /\ op' = "inverse"
    /\ ret' = inverse(args.m)
    /\ UNCHANGED <<lights, objects, args>>

NextInverse == Inverse

SpecInverse == InitInverse /\ [][NextInverse]_vars

\* ------------------------------------------------- the operations of Tuple
TupleInputs ==
    { <<v[1], v[2], v[3], w>> :
        v \in { <<ONE, 0, 0>>, <<ONE + EPSILON, 0, 0>>, <<0, 707, 0 - 707>>,
                <<ONE, 2 * ONE, 3 * ONE>>, <<ONE, 2 * ONE + 2 * EPSILON, 3 * ONE>> },
        w \in {0, EPSILON, ONE, 0 - ONE} }

InitTuple ==
    /\ lights = <<>>
    /\ objects = <<>>
    /\ op = "operands"
    /\ args \in {[a |-> a, b |-> b] : a \in TupleInputs, b \in TupleInputs}
    /\ ret = NoValue

TupleMagnitude ==
    /\ op = "operands"
    /\ op' = "magnitude"
    /\ ret' = Call_magnitude(args.a)
    /\ UNCHANGED <<lights, objects, args>>

TupleNormalize ==
    /\ op = "operands"
    /\ op' = "normalize"
    /\ ret' = Call_normalize(args.a)
    /\ UNCHANGED <<lights, objects, args>>

TupleDot ==
    /\ op = "operands"
    /\ op' = "dot"
    /\ ret' = Call_dot(args.a, args.b)
    /\ UNCHANGED <<lights, objects, args>>

TupleCross ==
    /\ op = "operands"
    /\ op' = "cross"
    /\ ret' = Call_cross(args.a, args.b)
    /\ UNCHANGED <<lights, objects, args>>

TupleReflect ==
    /\ op = "operands"
    /\ op' = "reflect"
    /\ ret' = Call_reflect(args.a, args.b)
    /\ UNCHANGED <<lights, objects, args>>

TupleEq ==
    /\ op = "operands"
    /\ op' = "eq"
    /\ ret' = Tuple_eq(args.a, args.b)
    /\ UNCHANGED <<lights, objects, args>>

TupleEqReal ==
    /\ op = "operands"
    /\ op' = "eq_real"
    /\ ret' = Tuple_eq_real(args.a, args.b)
    /\ UNCHANGED <<lights, objects, args>>

NextTuple ==
    \/ TupleMagnitude
    \/ TupleNormalize
    \/ TupleDot
    \/ TupleCross
    \/ TupleReflect
    \/ TupleEq
    \/ TupleEqReal

SpecTuple == InitTuple /\ [][NextTuple]_vars

\* ------------------------------------------- one placed sphere and one ray
\* objects is <<the object placed by args.m>>.  The fields of Ray are public
\* and transform leaves the direction as the matrix gives it, so rays come
\* with unit and with other directions.
ShapeOrigins ==
    { new_point(0, 0, 0 - 5 * ONE), new_point(0, 0, 0), new_point(0, 0, 5 * ONE),
      new_point(0, ONE, 0 - 5 * ONE), new_point(0, 2 * ONE, 0 - 5 * ONE),
      new_point(0, 0 - 3 * ONE, 0 - 3 * ONE) }

ShapeDirs ==
    { new_vector(0, 0, ONE), new_vector(0, 0, 2 * ONE), new_vector(0, 0, 500),
      new_vector(0, 0, 0 - ONE), new_vector(0, ONE, 0),
      normalize(new_vector(0, ONE, ONE)) }

ShapeRays == {[origin |-> o, dir |-> d] : o \in ShapeOrigins, d \in ShapeDirs}

ShapeTransforms ==
    { eye(4),
      Matrix_scale(2 * ONE, 2 * ONE, 2 * ONE),
      Matrix_scale(500, 500, 500),
      Matrix_scale(ONE, 2 * ONE, 4 * ONE),
      Matrix_translate(0, ONE, 0),
      Matrix_translate(3 * ONE, 4 * ONE, 5 * ONE) }

\* World points off the centre of every placed sphere: the centre has no
\* normal.
ShapePoints ==
    { new_point(0, 1707, 0 - 707), new_point(ONE, 0, 0), new_point(0, 2 * ONE, 0),
      new_point(3 * ONE, 4 * ONE, 6 * ONE) }

InitShape ==
    /\ lights = <<>>
    /\ op = "inputs"
    /\ args \in {[ray |-> r, m |-> m, pt |-> p] :
                    r \in ShapeRays, m \in ShapeTransforms, p \in ShapePoints}
    /\ objects = <<apply_transform(Object_new, args.m)>>
    /\ ret = NoValue

SphereHit ==
    /\ op = "inputs"
    /\ op' = "sphere_hit"
    /\ ret' = Sphere_hit(args.ray)
    /\ UNCHANGED <<lights, objects, args>>

RayTransform ==
    /\ op = "inputs"
    /\ op' = "transform"
    /\ ret' = Ray_transform(args.ray, args.m)
    /\ UNCHANGED <<lights, objects, args>>

ObjectHit ==
    /\ op = "inputs"
    /\ op' = "object_hit"
    /\ ret' = Object_hit(objects[1], 1, args.ray)
    /\ UNCHANGED <<lights, objects, args>>

ObjectNormalAt ==
    /\ op = "inputs"
    /\ op' = "normal_at"
    /\ ret' = Object_normal_at(objects[1], args.pt)
    /\ UNCHANGED <<lights, objects, args>>

NextShape ==
    \/ SphereHit
    \/ RayTransform
    \/ ObjectHit
    \/ ObjectNormalAt

SpecShape == InitShape /\ [][NextShape]_vars

\* ------------------------------------------- Matrix::new and m[(i, j)]
MaxDim == 3

\* r rows of c entries each, all different: the entry of row i, column j
\* (counted from 1) is (10 (i - 1) + j) * ONE.
RowsOf(r, c) == Vec([i \in 1..r |-> Vec([j \in 1..c |-> (10 * (i - 1) + j) * ONE])])

InitIndex ==
    /\ lights = <<>>
    /\ objects = <<>>
    /\ op = "rows"
    /\ args \in {[rows |-> RowsOf(r, c), i |-> i, j |-> j] :
                    r \in 1..MaxDim, c \in 1..MaxDim, i \in 0..(MaxDim - 1), j \in 0..(MaxDim - 1)}
    /\ ret = NoValue

\* Matrix::new(rows)[(i, j)]
MatrixIndex ==
    /\ op = "rows"
    /\ op' = "index"
    /\ ret' = Call_index(Matrix_new(args.rows), args.i, args.j)
    /\ UNCHANGED <<lights, objects, args>>

NextIndex == MatrixIndex

SpecIndex == InitIndex /\ [][NextIndex]_vars

\* ------------------------------------------------- Matrix::view_transform
FromInputs ==
    { new_point(0, 0, 0), new_point(0, 0, 0 - 5 * ONE), new_point(ONE, 3 * ONE, 2 * ONE),
      new_point(0, 0, 8 * ONE) }

ToInputs ==
    { new_point(0, 0, 0 - ONE), new_point(0, 0, ONE), new_point(0, 0, 0),
      new_point(4 * ONE, 0 - 2 * ONE, 8 * ONE) }

UpInputs ==
    { new_vector(0, ONE, 0), new_vector(0, 2 * ONE, 0), new_vector(ONE, ONE, 0),
      new_vector(0, 0, ONE) }

\* from = to has no forward direction (0/0).
InitView ==
    /\ lights = <<>>
    /\ objects = <<>>
    /\ op = "inputs"
    /\ args \in {a \in [from : FromInputs, to : ToInputs, up : UpInputs] : a.from # a.to}
    /\ ret = NoValue

ViewTransform ==
    /\ op = "inputs"
    /\ op' = "view_transform"
    /\ ret' = view_transform(args.from, args.to, args.up)
    /\ UNCHANGED <<lights, objects, args>>

NextView == ViewTransform

SpecView == InitView /\ [][NextView]_vars

\* ----------------------------------- Canvas::write_ppm_fn_long in parallel
\* The image of the default world, as sphere_scene renders its world:
\* write_ppm_fn_long(w, h, |px, py| camera.render_pixel(&world, px, py)).
\* args is the call (camera, w, h).  While the workers run, ret holds the
\* pixels whose closure has returned (done), the Vec each row collects
\* (pixels) and the Vec of the rows (rows); at the end ret is the text.
MaxWidth == 3
MaxHeight == 2

\* Camera::new, then the assignment to the public inv_transform.
CameraOf(w, h) ==
    [Camera_new(w * ONE, h * ONE, HALF_PI) EXCEPT !.inv_transform =
        unwrap(inverse(view_transform(new_point(0, 0, 0 - 1500), new_point(0, 0, 0),
                                      new_vector(0, ONE, 0))))]

EmptySlots(n) == Vec([k \in 1..n |-> NONE])

InitRender ==
    /\ lights = <<Default_light>>
    /\ objects = <<Default_s1, Default_s2>>
    /\ op = "rendering"
    /\ args \in {[camera |-> CameraOf(w, h), w |-> w, h |-> h] :
                    w \in 1..MaxWidth, h \in 1..MaxHeight}
    /\ ret = [done |-> {}, pixels |-> Vec([y \in 1..args.h |-> EmptySlots(args.w)]),
              rows |-> EmptySlots(args.h)]

\* A worker returns from the closure of pixel (x, y) and the row's collect
\* stores the line.
RenderPixel(x, y) ==
    /\ op = "rendering"
    /\ x < args.w
    /\ y < args.h
    /\ <<x, y>> \notin ret.done
    /\ ret' = [ret EXCEPT
                  !.done = @ \cup {<<x, y>>},
                  !.pixels[y + 1] =
                      par_collect(@, x, pixel_string(render_pixel(args.camera, lights, objects, x, y)))]
    /\ UNCHANGED <<lights, objects, op, args>>

\* Row y has all its lines: it is concatenated and the outer collect stores
\* it.
CollectRow(y) ==
    /\ op = "rendering"
    /\ y < args.h
    /\ ret.rows[y + 1] = NONE
    /\ \A x \in 0..(args.w - 1) : <<x, y>> \in ret.done
    /\ ret' = [ret EXCEPT !.rows = par_collect(@, y, concat_strings(ret.pixels[y + 1]))]
    /\ UNCHANGED <<lights, objects, op, args>>

\* Every row is stored: the text is formatted and returned.
WritePpm ==
    /\ op = "rendering"
    /\ \A y \in 1..args.h : ret.rows[y] # NONE
    /\ op' = "write_ppm_fn_long"
    /\ ret' = ppm_text(ppm_header(args.w, args.h), concat_strings(ret.rows))
    /\ UNCHANGED <<lights, objects, args>>

NextRender ==
    \/ \E x \in 0..(MaxWidth - 1), y \in 0..(MaxHeight - 1) : RenderPixel(x, y)
    \/ \E y \in 0..(MaxHeight - 1) : CollectRow(y)
    \/ WritePpm

SpecRender == InitRender /\ [][NextRender]_vars

\* ================================================================== claims
\* The rays and worlds of the examples.
Ray_front == Ray_new(new_point(0, 0, 0 - 5 * ONE), new_vector(0, 0, ONE))
Ray_inside_outer == Ray_new(new_point(0, 0, 750), new_vector(0, 0, 0 - ONE))
IsDefaultWorld == lights = <<Default_light>> /\ objects = <<Default_s1, Default_s2>>
IsAmbientWorld == lights = <<Default_light>> /\ objects = <<S1_ambient, S2_ambient>>

\* The record find_hit selects among the intersections of the ray.
ForwardHit(ray) == find_hit(intersect_world(objects, ray))

\* C1: color_at(ray) shades the record find_hit selects from
\* intersect_world(ray), the nearest one with parameter >= 0, whenever there
\* is one; from inside the outer sphere of the default world with both
\* ambients 1.0 the colour is the inner sphere's material colour.
C1_ColorAtShadesForwardHit ==
    op = "color_at" =>
        /\ ForwardHit(args.ray) # NONE =>
              ret = shade_hit(lights, objects,
                              prepare_computations(objects, unwrap(ForwardHit(args.ray)), args.ray))
        /\ (IsAmbientWorld /\ args.ray = Ray_inside_outer) =>
              Color_eq(ret, S2_ambient.material.color)

\* C2: color_at(ray) is black whenever no intersection of the ray has a
\* parameter >= 0, whether the ray misses every object or every
\* intersection lies behind its origin.
C2_ColorAtBlackWithoutForwardHit ==
    (op = "color_at" /\ ForwardHit(args.ray) = NONE) => ret = BLACK

\* C4: intersect_world(ray) holds every hit record of every object exactly
\* once, tagged with its object, in non-decreasing order of parameter, and
\* records of equal parameter stay in object-insertion order; the default
\* world and the ray from (0,0,-5) along +z give 4, 4.5, 5.5, 6.
HitsOfObject(xs, k) == SelectSeq(xs, LAMBDA h : h.obj = k)

C4_IntersectWorldSortedStable ==
    op = "intersect_world" =>
        /\ \A i \in 1..Len(ret) : ret[i].obj \in 1..Len(objects)
        /\ \A k \in 1..Len(objects) :
              HitsOfObject(ret, k) = Object_hit(objects[k], k, args.ray)
        /\ \A i \in 1..Len(ret), j \in 1..Len(ret) :
              i < j => /\ ret[i].hit <= ret[j].hit
                       /\ ret[i].hit = ret[j].hit => ret[i].obj <= ret[j].obj
        /\ (IsDefaultWorld /\ args.ray = Ray_front) =>
              ret = <<Hitrecord_new(4000, 1), Hitrecord_new(4500, 2),
                      Hitrecord_new(5500, 2), Hitrecord_new(6000, 1)>>

\* Two objects hit at the same parameter, and a negative parameter sorted
\* before a positive one.
C4_Witness ==
    /\ op = "intersect_world"
    /\ \E i \in 1..Len(ret), j \in 1..Len(ret) :
          i < j /\ ret[i].hit = ret[j].hit /\ ret[i].obj < ret[j].obj
    /\ \E i \in 1..Len(ret), j \in 1..Len(ret) :
          i < j /\ ret[i].hit < ret[j].hit /\ ret[i].obj > ret[j].obj

\* C5: is_shadowed(point, light) is true exactly when some object meets the
\* ray from the point toward the light at a parameter t with
\* 0 <= t < distance(point, light); in the default world (0,10,0) is lit and
\* (10,-10,10) is shadowed.
BlockedBeforeLight(point, light) ==
    LET v == Tuple_sub(light.pos, point)
        r == Ray_new(point, v)
    IN  \E k \in 1..Len(objects) :
            \E t \in {Object_hit(objects[k], k, r)[i].hit :
                          i \in 1..Len(Object_hit(objects[k], k, r))} :
                0 <= t /\ t < magnitude(v)

ReflectanceOfLight(comps, k) ==
    lightning(objects[comps.obj].material, lights[k], comps.over_point, comps.eyev,
              comps.normalv, is_shadowed(objects, comps.over_point, lights[k]))

RECURSIVE SumFrom(_, _, _)
\* f[k][c] + f[k + 1][c] + ... + f[n][c]
SumFrom(f, k, c) == IF k > Len(f) THEN 0 ELSE f[k][c] + SumFrom(f, k + 1, c)

C8_ShadeHitSumsEveryLight ==
    op = "shade_hit" =>
        LET terms == Vec([k \in 1..Len(lights) |-> ReflectanceOfLight(args.comps, k)])
        IN  /\ ret = <<SumFrom(terms, 1, 1), SumFrom(terms, 1, 2), SumFrom(terms, 1, 3)>>
            /\ lights = <<>> => ret = BLACK

\* Two lights, one of them shadowed and the other not, and a sum above 1.0.
C8_Witness ==
    /\ op = "shade_hit"
    /\ Len(lights) = 2
    /\ is_shadowed(objects, args.comps.over_point, lights[1])
          # is_shadowed(objects, args.comps.over_point, lights[2])
    /\ \E c \in 1..3 : ret[c] > ONE

\* C3: find_hit returns the record with the smallest parameter among those
\* with parameter >= 0, the earliest in the sequence on ties, and returns no
\* hit exactly when the sequence is empty or every parameter is negative.
ForwardIndices(hs) == {i \in 1..Len(hs) : hs[i].hit >= 0}

EarliestNearest(hs) ==
    CHOOSE i \in ForwardIndices(hs) :
        \A j \in ForwardIndices(hs) :
            hs[i].hit < hs[j].hit \/ (hs[i].hit = hs[j].hit /\ i <= j)

C3_FindHitEarliestNearestForward ==
    op = "find_hit" =>
        /\ (ret = NONE) <=> (ForwardIndices(args.hits) = {})
        /\ ForwardIndices(args.hits) # {} => ret = Some(args.hits[EarliestNearest(args.hits)])

\* Two different records tie for the smallest forward parameter, after a
\* record behind the origin.
C3_Witness ==
    /\ op = "find_hit"
    /\ ret # NONE
    /\ \E i \in 1..Len(args.hits), j \in 1..Len(args.hits), k \in 1..Len(args.hits) :
          /\ i < j
          /\ args.hits[i].hit = unwrap(ret).hit
          /\ args.hits[j].hit = unwrap(ret).hit
          /\ args.hits[i].obj # args.hits[j].obj
          /\ args.hits[k].hit < 0

\* C6: out of shadow, with the light direction, the normal and the eye
\* vector all equal, the reflectance is ambient + full diffuse + full
\* specular: color * intensity * (ambient + diffuse) + intensity * specular;
\* (1.9, 1.9, 1.9) for the default material, a white light at (0,0,-10), the
\* point at the origin and eye = normal = (0,0,-1).
LightDirection(a) == normalize(Tuple_sub(a.light.pos, a.pos))

FacingLight(a) ==
    /\ ~a.in_shadow
    /\ LightDirection(a) = a.normalv
    /\ a.normalv = a.eyev

C6_FullReflectanceFacingLight ==
    (op = "lightning" /\ FacingLight(args)) =>
        /\ Color_eq(ret,
                    Color_add(Color_scale(Color_mul(args.material.color, args.light.intensity),
                                          args.material.ambient + args.material.diffuse),
                              Color_scale(args.light.intensity, args.material.specular)))
        /\ (/\ args.material = Material_new
            /\ args.light = PointLight_new(Color_new(ONE, ONE, ONE), new_point(0, 0, 0 - 10 * ONE))
            /\ args.pos = new_point(0, 0, 0)
            /\ args.normalv = new_vector(0, 0, 0 - ONE)) => ret = Color_new(1900, 1900, 1900)

\* The three vectors are equal and oblique, the material is not the default.
C6_Witness ==
    /\ op = "lightning"
    /\ FacingLight(args)
    /\ args.normalv = new_vector(0, 707, 0 - 707)
    /\ args.material # Material_new
    /\ ret # Color_scale(Color_mul(args.material.color, args.light.intensity), args.material.ambient)

\* C7: in shadow the reflectance is exactly color (x) intensity * ambient,
\* whatever the other arguments are; (0.1, 0.1, 0.1) for the default
\* material and a white light.
C7_ShadowedIsAmbientOnly ==
    (op = "lightning" /\ args.in_shadow) =>
        /\ ret = Color_scale(Color_mul(args.material.color, args.light.intensity),
                             args.material.ambient)
        /\ (args.material = Material_new /\ args.light.intensity = Color_new(ONE, ONE, ONE)) =>
              ret = Color_new(100, 100, 100)

\* In shadow, with the light in front of the surface and the eye on the
\* reflection: out of shadow the diffuse and specular terms would not vanish.
C7_Witness ==
    /\ op = "lightning"
    /\ args.in_shadow
    /\ args.light.pos # args.pos
    /\ LightDirection(args) = args.normalv
    /\ args.normalv = args.eyev
    /\ args.material.diffuse > 0

\* C9: build() is the product Mn x ... x M2 x M1 of the transforms of the
\* calls op1, ..., opn made on identity(), so the first call acts first on a
\* point; translate then rotate is rotation x translation.
TransformOf(call) ==
    CASE call.kind = "translate" -> Matrix_translate(call.v[1], call.v[2], call.v[3])
      [] call.kind = "scale" -> Matrix_scale(call.v[1], call.v[2], call.v[3])
      [] call.kind = "rotation_x" -> Matrix_rotation_x(call.r)
      [] call.kind = "rotation_y" -> Matrix_rotation_y(call.r)
      [] call.kind = "rotation_z" -> Matrix_rotation_z(call.r)

RECURSIVE ProductOf(_)
\* (Mn x ... x M2) x M1
ProductOf(calls) ==
    IF calls = <<>> THEN eye(4)
    ELSE Matrix_mul(ProductOf(Tail(calls)), TransformOf(Head(calls)))

RECURSIVE ApplyInOrder(_, _)
\* Mn x (... x (M1 x p))
ApplyInOrder(calls, p) ==
    IF calls = <<>> THEN p
    ELSE ApplyInOrder(Tail(calls), Matrix_mul_tuple(TransformOf(Head(calls)), p))

ProbeTuples ==
    { new_point(ONE, 0, 0), new_point(0, ONE, 0), new_point(0, 0, ONE),
      new_point(ONE, 2 * ONE, 3 * ONE), new_vector(ONE, 0 - ONE, 2 * ONE) }

C9_BuildIsProductInCallOrder ==
    op = "build" =>
        /\ ret = ProductOf(args)
        /\ \A p \in ProbeTuples : Matrix_mul_tuple(ret, p) = ApplyInOrder(args, p)
        /\ (Len(args) = 2 /\ args[1].kind = "translate" /\ args[2].kind = "rotation_x") =>
              ret = Matrix_mul(Matrix_rotation_x(args[2].r),
                               Matrix_translate(args[1].v[1], args[1].v[2], args[1].v[3]))

\* translate then rotate, built, where the two do not commute.
C9_Witness ==
    /\ op = "build"
    /\ Len(args) = 2
    /\ args[1].kind = "translate"
    /\ args[2].kind = "rotation_x"
    /\ ret # Matrix_mul(Matrix_translate(args[1].v[1], args[1].v[2], args[1].v[3]),
                        Matrix_rotation_x(args[2].r))

\* C10: for every invertible square matrix M of size 1x1 to 4x4, inverse()
\* succeeds, M x inverse(M) is the identity and inverse(inverse(M)) is M,
\* within tolerance.
IsSquare(m) == m.width = m.height /\ m.width \in 1..4
Invertible(m) == Abs(det(m)) > EPSILON

InverseLaws(m, inv) ==
    /\ inv # NONE
    /\ Matrix_eq_real(Matrix_mul(m, unwrap(inv)), eye(m.width))
    /\ inverse(unwrap(inv)) # NONE
    /\ Matrix_eq_real(unwrap(inverse(unwrap(inv))), m)

C10_InverseOfEveryInvertible ==
    (op = "inverse" /\ IsSquare(args.m) /\ Invertible(args.m)) => InverseLaws(args.m, ret)

\* C11: inverse() returns no matrix for every square matrix with
\* |det| <= epsilon, |det| = epsilon included, and returns a matrix only when
\* |det| > epsilon.
C11_NoInverseUpToEpsilon ==
    (op = "inverse" /\ IsSquare(args.m)) =>
        /\ Abs(det(args.m)) <= EPSILON => ret = NONE
        /\ ret # NONE => Abs(det(args.m)) > EPSILON

\* C12: dot, cross, magnitude, normalize and reflect each abort with a fatal
\* error whenever an operand has w # 0, and return no value in that case.
C12_VectorOpsAbortOnNonVector ==
    /\ (op \in {"magnitude", "normalize"} /\ args.a[4] # 0) => ret = PANIC
    /\ (op \in {"dot", "cross", "reflect"} /\ (args.a[4] # 0 \/ args.b[4] # 0)) => ret = PANIC

\* reflect of a vector about a tuple whose w is not 0 has aborted, and so has
\* the dot it calls.
C12_Witness ==
    /\ op = "reflect"
    /\ args.a[4] = 0
    /\ args.b[4] # 0
    /\ ret = PANIC

\* C13: under == and under eq_real alike, two tuples are equal exactly when
\* each pair of components differs by at most epsilon.
C13_TupleEqualityIsTolerant ==
    op \in {"eq", "eq_real"} =>
        ret = (\A k \in 1..4 : Abs(args.a[k] - args.b[k]) <= EPSILON)

\* C14: Sphere.hit on the unit sphere returns an empty sequence when the
\* discriminant b^2 - 4ac is negative and otherwise exactly two parameters,
\* the smaller first (equal when the ray is tangent), that are the roots of
\* a t^2 + b t + c = 0; rays along +z from (0,0,-5), (0,0,0) and (0,0,5) give
\* (4,6), (-1,1) and (-6,-4), and find_hit reports no hit for the last.
QuadA(r) == dot(r.dir, r.dir)
QuadB(r) == 2 * dot(r.dir, Tuple_sub(r.origin, new_point(0, 0, 0)))
QuadC(r) == dot(Tuple_sub(r.origin, new_point(0, 0, 0)), Tuple_sub(r.origin, new_point(0, 0, 0))) - ONE
Discriminant(r) == FMul(QuadB(r), QuadB(r)) - 4 * FMul(QuadA(r), QuadC(r))

\* a t^2 + b t + c on the grid.
Residual(r, t) == FMul(QuadA(r), FMul(t, t)) + FMul(QuadB(r), t) + QuadC(r)

\* The rounding of the square root and of the quotient, carried through
\* b + 2 a t: a root is exact to that many grid steps.
RootTolerance(r, t) == (1 + Abs(QuadB(r) + 2 * FMul(QuadA(r), t)) \div ONE) * 2 * EPSILON

AlongZ(z) == [origin |-> new_point(0, 0, z), dir |-> new_vector(0, 0, ONE)]

C14_SphereHitRoots ==
    op = "sphere_hit" =>
        /\ Discriminant(args.ray) < 0 => ret = <<>>
        /\ Discriminant(args.ray) >= 0 =>
              /\ Len(ret) = 2
              /\ ret[1] <= ret[2]
              /\ Discriminant(args.ray) = 0 => ret[1] = ret[2]
              /\ \A k \in 1..2 :
                    Abs(Residual(args.ray, ret[k])) <= RootTolerance(args.ray, ret[k])
        /\ args.ray = AlongZ(0 - 5 * ONE) => ret = <<4 * ONE, 6 * ONE>>
        /\ args.ray = AlongZ(0) => ret = <<0 - ONE, ONE>>
        /\ args.ray = AlongZ(5 * ONE) =>
              /\ ret = <<0 - 6 * ONE, 0 - 4 * ONE>>
              /\ find_hit(Hitrecord_new_vec(ret, 1)) = NONE

\* A ray of non-unit direction through the sphere off its axis: two distinct
\* roots, one behind the origin and one ahead.
C14_Witness ==
    /\ op = "sphere_hit"
    /\ QuadA(args.ray) # ONE
    /\ Len(ret) = 2
    /\ ret[1] < 0
    /\ ret[2] > 0


\* C15: Ray.transform(m) returns the ray (m x origin, m x direction) with no
\* renormalization of the direction: a translation moves the origin and
\* leaves the direction unchanged, and scale(2,2,2) doubles both the
\* origin coordinates and the direction's length.
IsTranslation(m) == m = Matrix_translate(Idx(m, 0, 3), Idx(m, 1, 3), Idx(m, 2, 3))
TranslationOf(m) == new_vector(Idx(m, 0, 3), Idx(m, 1, 3), Idx(m, 2, 3))

C15_TransformKeepsDirectionLength ==
    op = "transform" =>
        /\ ret.origin = Matrix_mul_tuple(args.m, args.ray.origin)
        /\ ret.dir = Matrix_mul_tuple(args.m, args.ray.dir)
        /\ IsTranslation(args.m) =>
              /\ ret.origin = Tuple_add(args.ray.origin, TranslationOf(args.m))
              /\ ret.dir = args.ray.dir
        /\ args.m = Matrix_scale(2 * ONE, 2 * ONE, 2 * ONE) =>
              /\ \A k \in 1..3 : ret.origin[k] = 2 * args.ray.origin[k]
              /\ ret.origin[4] = ONE
              /\ ret.dir = Tuple_mul(args.ray.dir, 2 * ONE)
              /\ Abs(magnitude(ret.dir) - 2 * magnitude(args.ray.dir)) <= EPSILON
              /\ args.ray = AlongZ(0 - 5 * ONE) =>
                    /\ ret.origin = new_point(0, 0, 0 - 10 * ONE)
                    /\ ret.dir = new_vector(0, 0, 2 * ONE)

\* A unit direction scaled to length 2 and kept at that length.
C15_Witness ==
    /\ op = "transform"
    /\ args.m = Matrix_scale(2 * ONE, 2 * ONE, 2 * ONE)
    /\ magnitude(args.ray.dir) = ONE
    /\ args.ray.dir[2] # 0
    /\ magnitude(ret.dir) = 2 * ONE

\* C16 (as stated): for an object whose placement transform scales space,
\* the parameters Object.hit returns for a world-space ray are scaled
\* relative to the object's canonical space and are not the world-space arc
\* length along the ray to the object's surface.
IsScaling(m) == m = Matrix_scale(Idx(m, 0, 0), Idx(m, 1, 1), Idx(m, 2, 2)) /\ m # eye(4)
UnitRay(r) == magnitude(r.dir) = ONE

\* Rounding of the hit parameter, of the position and of the mapping into
\* canonical space, in grid steps.
SurfaceTolerance == 20 * EPSILON

\* The world point p is on the surface of the placed object: its image in
\* canonical space is at distance 1 from the centre.
OnPlacedSurface(obj, p) ==
    Abs(magnitude(Tuple_sub(Matrix_mul_tuple(obj.inv_transform, p), new_point(0, 0, 0))) - ONE)
        <= SurfaceTolerance

\* The point at arc length t from the origin of a ray of unit direction.
AtArcLength(r, t) == Tuple_add(r.origin, Tuple_mul(r.dir, t))

\* The arc lengths, in canonical space, from the transformed origin to the
\* unit sphere.
CanonicalArcLengths(obj, r) ==
    Sphere_hit(Ray_new(Matrix_mul_tuple(obj.inv_transform, r.origin),
                       Matrix_mul_tuple(obj.inv_transform, r.dir)))

C16_HitParametersNotWorldArcLength ==
    (op = "object_hit" /\ IsScaling(args.m) /\ UnitRay(args.ray) /\ ret # <<>>) =>
        \E k \in 1..Len(ret) : ~OnPlacedSurface(objects[1], AtArcLength(args.ray, ret[k].hit))

\* C16 (amended): whatever the placement, the parameters Object.hit returns
\* are parameters of the world-space ray: for a ray of unit direction each is
\* the world-space arc length from the origin to the object's surface (3 and
\* 7 for scale(2,2,2) and the ray from (0,0,-5) along +z), and under a
\* scaling placement it is not the canonical-space arc length (1.5 and 3.5).
C16_HitParametersAreWorldArcLength ==
    (op = "object_hit" /\ UnitRay(args.ray)) =>
        /\ \A k \in 1..Len(ret) : OnPlacedSurface(objects[1], AtArcLength(args.ray, ret[k].hit))
        /\ (IsScaling(args.m) /\ ret # <<>>) =>
              /\ Len(CanonicalArcLengths(objects[1], args.ray)) = Len(ret)
              /\ \A k \in 1..Len(ret) :
                    ret[k].hit # 0 => ret[k].hit # CanonicalArcLengths(objects[1], args.ray)[k]
        /\ (args.m = Matrix_scale(2 * ONE, 2 * ONE, 2 * ONE) /\ args.ray = AlongZ(0 - 5 * ONE)) =>
              /\ ret = <<Hitrecord_new(3 * ONE, 1), Hitrecord_new(7 * ONE, 1)>>
              /\ CanonicalArcLengths(objects[1], args.ray) = <<1500, 3500>>

\* A sphere scaled unevenly, met off its axes by a ray of unit direction.
C16_Witness ==
    /\ op = "object_hit"
    /\ args.m = Matrix_scale(ONE, 2 * ONE, 4 * ONE)
    /\ UnitRay(args.ray)
    /\ args.ray.dir[2] # 0
    /\ args.ray.dir[3] # 0
    /\ Len(ret) = 2
    /\ ret[1].hit > 0

\* C17: Object.normal_at(world point) maps the point into canonical space by
\* the stored inverse, takes the canonical sphere normal there, multiplies it
\* by the transpose of the stored inverse, resets w to 0 and normalizes; the
\* result always has w = 0, and for a translation-only placement it equals
\* the canonical normal at the translated-back point.
CanonicalNormal(p) == normalize(Tuple_sub(p, new_point(0, 0, 0)))

InverseTransposeNormal(obj, pt) ==
    Matrix_mul_tuple(transpose(obj.inv_transform),
                     CanonicalNormal(Matrix_mul_tuple(obj.inv_transform, pt)))

C17_NormalByInverseTranspose ==
    op = "normal_at" =>
        LET n == InverseTransposeNormal(objects[1], args.pt)
        IN  /\ ret = normalize(new_vector(n[1], n[2], n[3]))
            /\ ret[4] = 0
            /\ IsTranslation(args.m) =>
                  Tuple_eq_real(ret, CanonicalNormal(Tuple_sub(args.pt, TranslationOf(args.m))))
            /\ (args.m = Matrix_translate(0, ONE, 0) /\ args.pt = new_point(0, 1707, 0 - 707)) =>
                  Tuple_eq_real(ret, new_vector(0, 707, 0 - 707))

\* A translated sphere: the transposed inverse gives the normal a w that is
\* not 0 before the reset.
C17_Witness ==
    /\ op = "normal_at"
    /\ IsTranslation(args.m)
    /\ InverseTransposeNormal(objects[1], args.pt)[4] # 0
    /\ ret[4] = 0

\* C18: for a matrix built by Matrix::new from r rows of c entries each, r # c
\* included, m[(i, j)] succeeds and returns rows[i][j] for every i < r and
\* j < c.
C18_IndexReturnsRowEntry ==
    (op = "index" /\ args.i < Len(args.rows) /\ args.j < Len(args.rows[1])) =>
        ret = Returns(args.rows[args.i + 1][args.j + 1])

\* C19: when the pixels of an image are computed concurrently by a worker
\* pool, the assembled output holds at every position (x, y) the color
\* render_pixel(world, camera, x, y), in row-major order, for every completion
\* order of the workers, and two renders of the same World and Camera give
\* the same output.
LineOf(x, y) == pixel_string(render_pixel(args.camera, lights, objects, x, y))

RECURSIVE RowMajorLines(_)
\* The lines of pixels k, k + 1, ... in row-major order: pixel k is
\* (k mod w, k div w).
RowMajorLines(k) ==
    IF k >= args.w * args.h THEN <<>>
    ELSE LineOf(k % args.w, k \div args.w) \o RowMajorLines(k + 1)

C19_ParallelRenderIsRowMajor ==
    /\ op = "rendering" =>
          \A x \in 0..(args.w - 1), y \in 0..(args.h - 1) :
              /\ <<x, y>> \in ret.done => ret.pixels[y + 1][x + 1] = Some(LineOf(x, y))
              /\ <<x, y>> \notin ret.done => ret.pixels[y + 1][x + 1] = NONE
    /\ op = "write_ppm_fn_long" =>
          ret = ppm_header(args.w, args.h) \o <<"\n">> \o RowMajorLines(0) \o <<"\n">>

\* The last pixel of the image has finished before the first one, and the
\* two have different colors.
C19_Witness ==
    /\ op = "rendering"
    /\ args.w = MaxWidth
    /\ args.h = MaxHeight
    /\ <<args.w - 1, args.h - 1>> \in ret.done
    /\ <<0, 0>> \notin ret.done
    /\ LineOf(0, 0) # LineOf(args.w - 1, args.h - 1)

\* C20: view_transform(from, to, up) is the orientation matrix with rows
\* left, true-up and -forward, multiplied by translate(-from), where
\* forward = normalize(to - from), left = cross(forward, normalize(up)) and
\* true-up = cross(left, forward); it is the identity for from = origin,
\* to = (0,0,-1), up = (0,1,0), and scale(-1,1,-1) when looking toward
\* (0,0,1).
Forward(a) == normalize(Tuple_sub(a.to, a.from))
Left(a) == cross(Forward(a), normalize(a.up))
TrueUp(a) == cross(Left(a), Forward(a))

Orientation(a) ==
    [elems  |-> <<Left(a)[1], Left(a)[2], Left(a)[3], 0,
                  TrueUp(a)[1], TrueUp(a)[2], TrueUp(a)[3], 0,
                  0 - Forward(a)[1], 0 - Forward(a)[2], 0 - Forward(a)[3], 0,
                  0, 0, 0, ONE>>,
     width  |-> 4,
     height |-> 4]

C20_ViewIsOrientationTimesTranslation ==
    op = "view_transform" =>
        /\ ret = Matrix_mul(Orientation(args),
                            Matrix_translate(0 - args.from[1], 0 - args.from[2], 0 - args.from[3]))
        /\ \A p \in ProbeTuples :
              Matrix_mul_tuple(ret, p)
                  = Matrix_mul_tuple(Orientation(args),
                                     IF p[4] = 0 THEN p
                                     ELSE Tuple_add(Tuple_sub(p, args.from), new_point(0, 0, 0)))
        /\ (args.from = new_point(0, 0, 0) /\ args.up = new_vector(0, ONE, 0)) =>
              /\ args.to = new_point(0, 0, 0 - ONE) => ret = eye(4)
              /\ args.to = new_point(0, 0, ONE) => ret = Matrix_scale(0 - ONE, ONE, 0 - ONE)

\* The eye off the origin, looking along no axis, with an up that is not a
\* unit vector.
C20_Witness ==
    /\ op = "view_transform"
    /\ args.from = new_point(ONE, 3 * ONE, 2 * ONE)
    /\ args.to = new_point(4 * ONE, 0 - 2 * ONE, 8 * ONE)
    /\ args.up = new_vector(ONE, ONE, 0)
    /\ Idx(ret, 0, 3) # 0
    /\ Idx(ret, 0, 0) # 0

\* ------------------------------------------- Matrix::det, cofactor, mirror
\* Square matrices of size 1 to 4, the matrices of test_sub, test_det and
\* test_cofactor_mirror among them.
Dense3 ==
    { Matrix_new(<<<<ONE, 5 * ONE, 0>>, <<0 - 3 * ONE, 2 * ONE, 7 * ONE>>, <<0, 6 * ONE, 0 - 3 * ONE>>>>),
      Matrix_new(<<<<0 - 3 * ONE, 5 * ONE, 0>>, <<2 * ONE, 0 - ONE, 0 - 7 * ONE>>, <<6 * ONE, 0 - ONE, 5 * ONE>>>>),
      Matrix_new(<<<<ONE, 2 * ONE, 6 * ONE>>, <<0 - 5 * ONE, 8 * ONE, 0 - 4 * ONE>>, <<2 * ONE, 6 * ONE, 4 * ONE>>>>) }
Dense4 ==
    { Matrix_new(<<<<0 - 6 * ONE, ONE, ONE, 6 * ONE>>, <<0 - 8 * ONE, 5 * ONE, 8 * ONE, 6 * ONE>>,
                   <<0 - ONE, 0, 8 * ONE, 2 * ONE>>, <<0 - 7 * ONE, ONE, 0 - ONE, ONE>>>>),
      Matrix_new(<<<<0 - 2 * ONE, 0 - 8 * ONE, 3 * ONE, 5 * ONE>>, <<0 - 3 * ONE, ONE, 7 * ONE, 3 * ONE>>,
                   <<ONE, 2 * ONE, 0 - 9 * ONE, 6 * ONE>>, <<0 - 6 * ONE, 7 * ONE, 7 * ONE, 0 - 9 * ONE>>>>) }

DetInputs ==
    Square1 \cup Square2 \cup Square3 \cup Dense3 \cup Square4 \cup Dense4

InitDet ==
    /\ lights = <<>>
    /\ objects = <<>>
    /\ op = "matrix"
    /\ args \in {a \in [m : DetInputs, row : 0..3, col : 0..3] :
                    a.row < a.m.height /\ a.col < a.m.width}
    /\ ret = NoValue

MatrixDet ==
    /\ op = "matrix"
    /\ op' = "det"
    /\ ret' = det(args.m)
    /\ UNCHANGED <<lights, objects, args>>

MatrixSubmatrix ==
    /\ op = "matrix"
    /\ op' = "submatrix"
    /\ ret' = submatrix(args.m, args.row, args.col)
    /\ UNCHANGED <<lights, objects, args>>

MatrixMirror ==
    /\ op = "matrix"
    /\ op' = "mirror"
    /\ ret' = mirror(args.m, args.row, args.col)
    /\ UNCHANGED <<lights, objects, args>>

MatrixCofactor ==
    /\ op = "matrix"
    /\ op' = "cofactor"
    /\ ret' = cofactor(args.m, args.row, args.col)
    /\ UNCHANGED <<lights, objects, args>>

NextDet ==
    \/ MatrixDet
    \/ MatrixSubmatrix
    \/ MatrixMirror
    \/ MatrixCofactor

SpecDet == InitDet /\ [][NextDet]_vars


\* C21: for every square matrix of size 1x1 to 4x4, det() is the Laplace
\* expansion along the first row and cofactor(r, c) is (-1)^(r+c) times the
\* determinant of the matrix with row r and column c removed.
\* The reference works on the matrix as a sequence of rows; the determinant
\* of the 0x0 matrix is 1, as the expansion of a 1x1 matrix requires.
RowsOfMatrix(m) ==
    [i \in 1..m.height |-> [j \in 1..m.width |-> m.elems[(i - 1) * m.width + j]]]

Without(s, k) == [i \in 1..(Len(s) - 1) |-> IF i < k THEN s[i] ELSE s[i + 1]]

Minor(rows, r, c) == LET kept == Without(rows, r) IN [i \in 1..Len(kept) |-> Without(kept[i], c)]

MinusOneTo(k) == IF k % 2 = 0 THEN 1 ELSE 0 - 1

RECURSIVE Laplace(_)
RECURSIVE LaplaceFrom(_, _)
Laplace(rows) == IF Len(rows) = 0 THEN ONE ELSE LaplaceFrom(rows, 1)
LaplaceFrom(rows, c) ==
    IF c > Len(rows) THEN 0
    ELSE MinusOneTo(1 + c) * FMul(rows[1][c], Laplace(Minor(rows, 1, c)))
            + LaplaceFrom(rows, c + 1)

C21_DetAndCofactorByLaplace ==
    /\ (op = "det" /\ IsSquare(args.m)) => ret = Laplace(RowsOfMatrix(args.m))
    /\ (op = "cofactor" /\ IsSquare(args.m)) =>
           ret = MinusOneTo(args.row + args.col)
                     * Laplace(Minor(RowsOfMatrix(args.m), args.row + 1, args.col + 1))

\* -------------------------------------------- the two products of a Matrix
\* 4x4 matrices: the matrices of test_mat_mul and the transforms of the
\* scenes; tuples: the tuple of test_mat_mul, a point and a vector.
MulMatrices ==
    { eye(4),
      Matrix_new(<<<<ONE, 2 * ONE, 3 * ONE, 4 * ONE>>, <<5 * ONE, 6 * ONE, 7 * ONE, 8 * ONE>>,
                   <<9 * ONE, 8 * ONE, 7 * ONE, 6 * ONE>>, <<5 * ONE, 4 * ONE, 3 * ONE, 2 * ONE>>>>),
      Matrix_new(<<<<0 - 2 * ONE, ONE, 2 * ONE, 3 * ONE>>, <<3 * ONE, 2 * ONE, ONE, 0 - ONE>>,
                   <<4 * ONE, 3 * ONE, 6 * ONE, 5 * ONE>>, <<ONE, 2 * ONE, 7 * ONE, 8 * ONE>>>>),
      Matrix_new(<<<<ONE, 2 * ONE, 3 * ONE, 4 * ONE>>, <<2 * ONE, 4 * ONE, 4 * ONE, 2 * ONE>>,
                   <<8 * ONE, 6 * ONE, 4 * ONE, ONE>>, <<0, 0, 0, ONE>>>>),
      Matrix_translate(ONE, 2 * ONE, 3 * ONE),
      Matrix_scale(2 * ONE, 500, 0 - ONE),
      Matrix_rotation_x(HALF_PI),
      Matrix_rotation_y(QUARTER_PI),
      Matrix_rotation_z(QUARTER_PI) }

MulTuples ==
    { <<ONE, 2 * ONE, 3 * ONE, ONE>>, new_point(0 - ONE, 500, 2 * ONE),
      new_vector(0, 707, 0 - 707), new_vector(333, 0 - 2 * ONE, ONE) }

InitMul ==
    /\ lights = <<>>
    /\ objects = <<>>
    /\ op = "operands"
    /\ args \in [a : MulMatrices, b : MulMatrices, p : MulTuples]
    /\ ret = NoValue

\* &a * &b
MatrixMul ==
    /\ op = "operands"
    /\ op' = "mul"
    /\ ret' = Matrix_mul(args.a, args.b)
    /\ UNCHANGED <<lights, objects, args>>

\* &b * p
MatrixMulTuple ==
    /\ op = "operands"
    /\ op' = "mul_tuple"
    /\ ret' = Matrix_mul_tuple(args.b, args.p)
    /\ UNCHANGED <<lights, objects, args>>

\* &(&a * &b) * p
ProductMulTuple ==
    /\ op = "mul"
    /\ op' = "product_mul_tuple"
    /\ ret' = Matrix_mul_tuple(ret, args.p)
    /\ UNCHANGED <<lights, objects, args>>

\* &a * (&b * p)
MatrixMulImage ==
    /\ op = "mul_tuple"
    /\ op' = "mul_image"
    /\ ret' = Matrix_mul_tuple(args.a, ret)
    /\ UNCHANGED <<lights, objects, args>>

NextMul ==
    \/ MatrixMul
    \/ MatrixMulTuple
    \/ ProductMulTuple
    \/ MatrixMulImage

SpecMul == InitMul /\ [][NextMul]_vars

\* C22: (A x B)[i][j] is the sum over k of A[i][k] * B[k][j], (A x p)[i] is
\* the sum over j of A[i][j] * p[j], eye(4) is a two-sided identity for both
\* products, and A x (B x p) = (A x B) x p.
EntryOfProduct(a, b, i, j) ==
    LET ra == RowsOfMatrix(a)
        rb == RowsOfMatrix(b)
    IN  FMul(ra[i][1], rb[1][j]) + FMul(ra[i][2], rb[2][j])
            + FMul(ra[i][3], rb[3][j]) + FMul(ra[i][4], rb[4][j])

EntryOfImage(a, p, i) ==
    LET ra == RowsOfMatrix(a)
    IN  FMul(ra[i][1], p[1]) + FMul(ra[i][2], p[2]) + FMul(ra[i][3], p[3]) + FMul(ra[i][4], p[4])

ProductsByEntry ==
    /\ op = "mul" =>
          /\ ret.width = 4 /\ ret.height = 4
          /\ \A i \in 1..4, j \in 1..4 :
                 RowsOfMatrix(ret)[i][j] = EntryOfProduct(args.a, args.b, i, j)
          /\ args.a = eye(4) => ret = args.b
          /\ args.b = eye(4) => ret = args.a
    /\ op = "mul_tuple" =>
          /\ \A i \in 1..4 : ret[i] = EntryOfImage(args.b, args.p, i)
          /\ args.b = eye(4) => ret = args.p

\* The statement as given: the two groupings agree for all operands.
C22_ProductsAreAssociative ==
    /\ ProductsByEntry
    /\ op = "mul_image" =>
          ret = Matrix_mul_tuple(Matrix_mul(args.a, args.b), args.p)

\* No product of two entries is rounded: every entry is a whole number.
WholeEntries(s) == \A k \in 1..Len(s) : s[k] % ONE = 0

\* The largest magnitude among the entries, rounded up to a whole number.
MaxEntry(s) == CHOOSE n \in 0..16 : (\A k \in 1..Len(s) : Abs(s[k]) <= n * ONE)
                                    /\ (n = 0 \/ \E k \in 1..Len(s) : Abs(s[k]) > (n - 1) * ONE)

\* Each rounded product is off by at most half a grid step: an entry of
\* A x B or of B x p is off by at most 2 steps, and a component of either
\* grouping by at most 8 times the largest entry it is multiplied with, plus 2.
RoundingBound(a, p) == (8 * (MaxEntry(a.elems) + MaxEntry(p)) + 4) * EPSILON

\* C22 (amended): the entries are the dot products, eye(4) is an exact
\* two-sided identity, and the two groupings agree exactly when no product is
\* rounded and within the accumulated rounding error otherwise.
C22_ProductsAreDotProducts ==
    /\ ProductsByEntry
    /\ op = "mul_image" =>
          LET other == Matrix_mul_tuple(Matrix_mul(args.a, args.b), args.p)
          IN  /\ (WholeEntries(args.a.elems) /\ WholeEntries(args.b.elems) /\ WholeEntries(args.p))
                     => ret = other
              /\ \A i \in 1..4 : Abs(ret[i] - other[i]) <= RoundingBound(args.a, args.p)

\* test_mat_mul's tuple through two matrices that are not the identity, no
\* product rounded.
C22_Witness ==
    /\ op = "mul_image"
    /\ args.a # eye(4) /\ args.b # eye(4)
    /\ WholeEntries(args.a.elems) /\ WholeEntries(args.b.elems)
    /\ args.p = <<ONE, 2 * ONE, 3 * ONE, ONE>>
    /\ ret # args.p

\* ------------------------------------------------------------------ Camera
MaxSide == 5

\* The field of view of the scene (pi/3), of test_ray (pi/2), and 2 pi/3.
FovInputs == {PI \div 3, HALF_PI, (2 * PI) \div 3}

\* The view of a new camera, of test_ray and of the scene.
ViewInputs ==
    { eye(4),
      view_transform(new_point(0, 0, 0 - 5 * ONE), new_point(0, 0, 0), new_vector(0, ONE, 0)),
      view_transform(new_point(0, 1500, 0 - 5 * ONE), new_point(0, ONE, 0), new_vector(0, ONE, 0)) }

InitCamera ==
    /\ lights = <<>>
    /\ objects = <<>>
    /\ op = "sizes"
    /\ args \in [hsize : 1..MaxSide, vsize : 1..MaxSide, fov : FovInputs, view : ViewInputs]
    /\ ret = NoValue

CameraNew ==
    /\ op = "sizes"
    /\ op' = "new"
    /\ ret' = Camera_new(args.hsize * ONE, args.vsize * ONE, args.fov)
    /\ UNCHANGED <<lights, objects, args>>

\* c.inv_transform = view.inverse().unwrap()
CameraSetView ==
    /\ op = "new"
    /\ args.view # eye(4)
    /\ op' = "placed"
    /\ ret' = [ret EXCEPT !.inv_transform = unwrap(inverse(args.view))]
    /\ UNCHANGED <<lights, objects, args>>

RayForPixel(px, py) ==
    /\ \/ op = "new" /\ args.view = eye(4)
       \/ op = "placed"
    /\ px < args.hsize
    /\ py < args.vsize
    /\ op' = "ray_for_pixel"
    /\ ret' = [camera |-> ret, px |-> px, py |-> py, ray |-> ray_for_pixel(ret, px, py)]
    /\ UNCHANGED <<lights, objects, args>>

NextCamera ==
    \/ CameraNew
    \/ CameraSetView
    \/ \E px \in 0..(MaxSide - 1), py \in 0..(MaxSide - 1) : RayForPixel(px, py)

SpecCamera == InitCamera /\ [][NextCamera]_vars


\* C23: Camera::new gives the dimension with fewer pixels the half-extent
\* tan(fov/2), and the other dimension that value scaled by the aspect
\* ratio.
HalfView(fov) == tan(FDiv(fov, 2 * ONE))

\* The half-extents of the dimension with fewer and with more pixels.
HalfOfFewer(c) == IF c.hsize <= c.vsize THEN c.half_width ELSE c.half_height
HalfOfMore(c) == IF c.hsize <= c.vsize THEN c.half_height ELSE c.half_width
Fewer(c) == Min(c.hsize, c.vsize)
More(c) == Max(c.hsize, c.vsize)

\* x is v * num / den, within the rounding of the quotient and the product.
ScaledBy(x, v, num, den) == Abs(x * den - v * num) <= 2 * EPSILON * den

C23_FewerPixelsSpanFov ==
    op = "new" =>
        /\ HalfOfFewer(ret) = HalfView(args.fov)
        /\ ScaledBy(HalfOfMore(ret), HalfOfFewer(ret), More(ret), Fewer(ret))

\* C23 (amended): the dimension with more pixels has the half-extent
\* tan(fov/2), and the dimension with fewer pixels that value times
\* (fewer pixels / more pixels); a square canvas has both equal to
\* tan(fov/2).
C23_MorePixelsSpanFov ==
    op = "new" =>
        /\ HalfOfMore(ret) = HalfView(args.fov)
        /\ ScaledBy(HalfOfFewer(ret), HalfOfMore(ret), Fewer(ret), More(ret))
        /\ args.hsize = args.vsize => HalfOfFewer(ret) = HalfView(args.fov)

\* A canvas wider than tall and one taller than wide, as in the scene
\* (2 : 1, pi / 3).
C23_Witness ==
    /\ op = "new"
    /\ args.hsize = 4 /\ args.vsize = 2
    /\ args.fov = PI \div 3
    /\ ret.half_width = 577
    /\ ret.half_height < ret.half_width

\* C24: ray_for_pixel(px, py) starts at the inverse view transform applied
\* to (0, 0, 0) and points, normalized, from there to the inverse view
\* transform applied to (half_width - (px + 0.5) * pixel_size,
\* half_height - (py + 0.5) * pixel_size, -1); with the identity view and an
\* odd-sized square canvas the centre pixel's ray points along (0, 0, -1).
PixelCentre(c, k) == FMul((2 * k + 1) * 500, c.pixel_size)

TargetOf(c, px, py) ==
    <<c.half_width - PixelCentre(c, px), c.half_height - PixelCentre(c, py), 0 - ONE, ONE>>

EyeOf(c) == Matrix_mul_tuple(c.inv_transform, <<0, 0, 0, ONE>>)

IsCentrePixel ==
    /\ args.hsize = args.vsize
    /\ args.hsize % 2 = 1
    /\ ret.px = args.hsize \div 2
    /\ ret.py = args.vsize \div 2

C24_RayThroughPixelCentre ==
    op = "ray_for_pixel" =>
        /\ ret.ray.origin = EyeOf(ret.camera)
        /\ ret.ray.dir =
               normalize(Tuple_sub(Matrix_mul_tuple(ret.camera.inv_transform,
                                                    TargetOf(ret.camera, ret.px, ret.py)),
                                   EyeOf(ret.camera)))
        /\ Abs(magnitude(ret.ray.dir) - ONE) <= EPSILON
        /\ (args.view = eye(4) /\ IsCentrePixel) =>
               Tuple_eq_real(ret.ray.dir, new_vector(0, 0, 0 - ONE))

\* The centre pixel of a 3x3 canvas with the identity view.
C24_Witness ==
    /\ op = "ray_for_pixel"
    /\ args.view = eye(4)
    /\ IsCentrePixel
    /\ args.hsize = 3
    /\ ret.ray.origin = new_point(0, 0, 0)

\* C25: the order of the objects does not change the parameters
\* intersect_world returns, nor the object color_at and is_shadowed choose,
\* except that of two records of different objects with equal parameters the
\* earlier-inserted object's comes first; the order of the lights does not
\* change shade_hit's sum.
Reorderings(s) == {Vec([i \in 1..Len(s) |-> s[p[i]]]) : p \in Permutations(1..Len(s))}

Params(hrs) == Vec([i \in 1..Len(hrs) |-> hrs[i].hit])
ObjectsHit(objs, hrs) == Vec([i \in 1..Len(hrs) |-> objs[hrs[i].obj]])

\* Two records of different objects have the same parameter.
Tied(hrs) == \E i, j \in 1..Len(hrs) : hrs[i].hit = hrs[j].hit /\ hrs[i].obj # hrs[j].obj

EarlierInsertedFirst(hrs) ==
    \A i, j \in 1..Len(hrs) :
        (i < j /\ hrs[i].hit = hrs[j].hit) => hrs[i].obj <= hrs[j].obj

\* The record color_at shades, and the one is_shadowed compares with the
\* distance to the light.
FirstRecord(objs, ray) == intersect_world(objs, ray)[1]
ShadowRecord(objs, point, light) ==
    find_hit(intersect_world(objs, Ray_new(point, normalize(Tuple_sub(light.pos, point)))))

C25_OrderOnlyBreaksTies ==
    /\ op = "intersect_world" =>
          /\ EarlierInsertedFirst(ret)
          /\ \A q \in Reorderings(objects) :
                LET hrs == intersect_world(q, args.ray)
                IN  /\ Params(hrs) = Params(ret)
                    /\ EarlierInsertedFirst(hrs)
                    /\ ~Tied(ret) => ObjectsHit(q, hrs) = ObjectsHit(objects, ret)
    /\ op = "color_at" =>
          \A q \in Reorderings(objects) :
              LET hrs == intersect_world(objects, args.ray)
              IN  (hrs # <<>> /\ ~Tied(hrs)) =>
                      /\ q[FirstRecord(q, args.ray).obj] = objects[hrs[1].obj]
                      /\ color_at(lights, q, args.ray) = ret
    /\ op = "is_shadowed" =>
          \A q \in Reorderings(objects) :
              LET h == ShadowRecord(objects, args.point, args.light)
                  hq == ShadowRecord(q, args.point, args.light)
              IN  /\ is_shadowed(q, args.point, args.light) = ret
                  /\ (h = NONE) = (hq = NONE)
                  /\ (h # NONE /\ ~Tied(intersect_world(objects,
                          Ray_new(args.point, normalize(Tuple_sub(args.light.pos, args.point))))))
                        => q[unwrap(hq).obj] = objects[unwrap(h).obj]
    /\ op = "shade_hit" =>
          \A l \in Reorderings(lights) : shade_hit(l, objects, args.comps) = ret

\* The default world's spheres inserted in the other order: the parameters
\* come out as for the default world, 4, 4.5, 5.5, 6.
C25_Witness ==
    /\ op = "intersect_world"
    /\ objects = <<Default_s2, Default_s1>>
    /\ Params(ret) = <<4 * ONE, 4500, 5500, 6 * ONE>>
    /\ ret[1].obj = 2

\* ------------------------------------------- World::prepare_computations
\* Worlds of one or two spheres and rays that meet them from outside, from
\* inside and at a tangent, or miss them.
PrepareWorlds ==
    { <<Default_s1, Default_s2>>,
      <<Object_new>>,
      <<apply_transform(Object_new, Matrix_scale(2 * ONE, 2 * ONE, 2 * ONE))>>,
      <<apply_transform(Object_new, Matrix_translate(0, 0, ONE))>>,
      <<apply_transform(Object_new, Matrix_scale(ONE, 500, ONE))>>,
      <<apply_transform(Object_new, Matrix_translate(0, ONE, 0)), Default_s2>> }

PrepareRays ==
    RayInputs \cup
    { Ray_new(new_point(0, 0, 0), new_vector(0, ONE, 0)),
      Ray_new(new_point(0, 500, 0), new_vector(0, 0 - ONE, 0)),
      Ray_new(new_point(0, 250, 0 - 5 * ONE), new_vector(0, 0, ONE)),
      Ray_new(new_point(5 * ONE, 0, 0), new_vector(0 - ONE, 0, 0)) }

InitPrepare ==
    /\ lights = <<Default_light>>
    /\ objects \in PrepareWorlds
    /\ op = "world"
    /\ args \in {[ray |-> r] : r \in PrepareRays}
    /\ ret = NoValue

\* let hrs = self.intersect_world(ray)
PrepareIntersect ==
    /\ op = "world"
    /\ op' = "intersect_world"
    /\ ret' = intersect_world(objects, args.ray)
    /\ UNCHANGED <<lights, objects, args>>

\* Self::prepare_computations(&hrs[k - 1], ray)
PrepareComputations(k) ==
    /\ op = "intersect_world"
    /\ k <= Len(ret)
    /\ op' = "prepare_computations"
    /\ args' = [ray |-> args.ray, hr |-> ret[k]]
    /\ ret' = prepare_computations(objects, ret[k], args.ray)
    /\ UNCHANGED <<lights, objects>>

NextPrepare ==
    \/ PrepareIntersect
    \/ \E k \in 1..(2 * MaxObjects) : PrepareComputations(k)

SpecPrepare == InitPrepare /\ [][NextPrepare]_vars


\* C26: over_point is point plus the shading normal (the normal after the
\* inside flip) times a small positive offset, so over_point is on the eye's
\* side of the surface, dot(over_point - point, eyev) >= 0, for hits seen
\* from outside and from inside alike.
C26_OverPointOnEyeSide ==
    op = "prepare_computations" =>
        /\ \E offset \in 1..(100 * EPSILON) :
               ret.over_point = Tuple_add(ret.point, Tuple_mul(ret.normalv, offset))
        /\ dot(Tuple_sub(ret.over_point, ret.point), ret.eyev) >= 0

\* C27: in every hit context point = ray.pos(hit), eyev = -ray.direction,
\* inside holds exactly when dot(object normal at point, eyev) < 0, normalv
\* is the object normal negated exactly when inside, and so
\* dot(normalv, eyev) >= 0.
ObjectNormal == Object_normal_at(objects[args.hr.obj], ret.point)

C27_HitContextFacesEye ==
    op = "prepare_computations" =>
        /\ ret.hit = args.hr.hit
        /\ ret.obj = args.hr.obj
        /\ ret.point = Tuple_add(args.ray.origin, Tuple_mul(args.ray.dir, args.hr.hit))
        /\ ret.eyev = Tuple_neg(args.ray.dir)
        /\ ret.inside = (dot(ObjectNormal, ret.eyev) < 0)
        /\ ret.inside => ret.normalv = Tuple_neg(ObjectNormal)
        /\ ~ret.inside => ret.normalv = ObjectNormal
        /\ dot(ret.normalv, ret.eyev) >= 0

\* test_prepare_computations: the ray from the centre of the unit sphere
\* along +z, hit at 1, is inside and its normal is flipped to (0, 0, -1).
C27_Witness ==
    /\ op = "prepare_computations"
    /\ objects = <<Object_new>>
    /\ args.ray = Ray_new(new_point(0, 0, 0), new_vector(0, 0, ONE))
    /\ args.hr.hit = ONE
    /\ ret.point = new_point(0, 0, ONE)
    /\ ret.eyev = new_vector(0, 0, 0 - ONE)
    /\ ret.inside
    /\ ret.normalv = new_vector(0, 0, 0 - ONE)

\* ------------------------------------------------ Object::apply_transform
MaxApplies == 2

\* 4x4 transforms: invertible ones, singular ones, and one whose determinant
\* is epsilon.
PlacementInputs ==
    { eye(4),
      Matrix_translate(ONE, 2 * ONE, 3 * ONE),
      Matrix_scale(2 * ONE, 2 * ONE, 2 * ONE),
      Matrix_scale(500, ONE, ONE),
      Matrix_rotation_x(HALF_PI),
      Matrix_mul(Matrix_translate(0, ONE, 0), Matrix_scale(2 * ONE, ONE, ONE)),
      Matrix_scale(EPSILON, ONE, ONE),
      zeros(4, 4),
      Matrix_scale(ONE, 0, ONE),
      IdxSet(Matrix_translate(ONE, 0, 0), 3, 3, 0) }

\* Object::new, and Object::new followed by assignments to the public
\* material field.
InitObject ==
    /\ lights = <<>>
    /\ objects \in {<<Object_new>>, <<Default_s1>>}
    /\ op = "new"
    /\ args = [calls |-> 0]
    /\ ret = NoValue

\* objects[1].apply_transform(m); a panic ends the program.
ApplyTransform(m) ==
    /\ op \in {"new", "apply_transform"}
    /\ args.calls < MaxApplies
    /\ LET call == Call_apply_transform(objects[1], m)
       IN  /\ objects' = <<call.self>>
           /\ op' = IF call.tag = "Panic" THEN "apply_transform_panic" ELSE "apply_transform"
    /\ args' = [calls |-> args.calls + 1, m |-> m, before |-> objects[1]]
    /\ UNCHANGED <<lights, ret>>

NextObject == \E m \in PlacementInputs : ApplyTransform(m)

SpecObject == InitObject /\ [][NextObject]_vars


\* C28: apply_transform with a singular matrix aborts and leaves the stored
\* inverse transform as it was; no substitute is stored, so the object always
\* holds the inverse of an invertible matrix.
Singular(m) == det(m) = 0

IsInverseOf(inv, m) ==
    /\ Matrix_eq_real(Matrix_mul(m, inv), eye(4))
    /\ Matrix_eq_real(Matrix_mul(inv, m), eye(4))

C28_SingularPlacementAborts ==
    /\ (op \in {"apply_transform", "apply_transform_panic"} /\ Singular(args.m)) =>
           /\ op = "apply_transform_panic"
           /\ objects[1] = args.before
    /\ op = "apply_transform_panic" => objects[1].inv_transform = args.before.inv_transform
    /\ op = "apply_transform" =>
           /\ ~Singular(args.m)
           /\ IsInverseOf(objects[1].inv_transform, args.m)
    /\ \E m \in PlacementInputs : ~Singular(m) /\ IsInverseOf(objects[1].inv_transform, m)

\* A placed object refuses a singular matrix and keeps its placement.
C28_Witness ==
    /\ op = "apply_transform_panic"
    /\ args.m = Matrix_scale(ONE, 0, ONE)
    /\ args.calls = 2
    /\ objects[1].inv_transform = Matrix_scale(500, 500, 500)


\* C30: a new Object holds the identity as its inverse transform; after
\* apply_transform calls with invertible T1, ..., Tn it holds inverse(Tn)
\* alone, and the calls change neither the shape nor the material.
C30_PlacementIsReplaced ==
    /\ op = "new" => objects[1].inv_transform = eye(4)
    /\ op = "apply_transform" =>
           /\ objects[1].inv_transform = unwrap(inverse(args.m))
           /\ objects[1].shape = args.before.shape
           /\ objects[1].material = args.before.material

\* A second placement over a first one that was not the identity.
C30_Witness ==
    /\ op = "apply_transform"
    /\ args.calls = 2
    /\ args.before.inv_transform = Matrix_scale(500, 500, 500)
    /\ args.m = Matrix_translate(ONE, 2 * ONE, 3 * ONE)
    /\ objects[1].inv_transform = Matrix_translate(0 - ONE, 0 - 2 * ONE, 0 - 3 * ONE)
    /\ objects[1].material = Default_s1.material

\* C29: out of shadow the reflectance is the ambient term alone when
\* dot(light direction, normal) < 0; ambient + diffuse when that is >= 0 but
\* dot(reflect(-light direction, normal), eye) < 0; and otherwise
\* ambient + diffuse + intensity * specular * reflect_dot_eye ^ shininess.
AmbientTerm(a) == Color_scale(Color_mul(a.material.color, a.light.intensity), a.material.ambient)

LightDotNormal(a) == dot(LightDirection(a), a.normalv)

DiffuseTerm(a) ==
    Color_scale(Color_scale(Color_mul(a.material.color, a.light.intensity), a.material.diffuse),
                LightDotNormal(a))

ReflectDotEye(a) == dot(reflect(Tuple_neg(LightDirection(a)), a.normalv), a.eyev)

SpecularTerm(a) ==
    Color_scale(Color_scale(a.light.intensity, a.material.specular),
                powf(ReflectDotEye(a), a.material.shininess))

C29_ReflectanceByCase ==
    (op = "lightning" /\ ~args.in_shadow) =>
        /\ LightDotNormal(args) < 0 => ret = AmbientTerm(args)
        /\ (LightDotNormal(args) >= 0 /\ ReflectDotEye(args) < 0) =>
               ret = Color_add(AmbientTerm(args), DiffuseTerm(args))
        /\ (LightDotNormal(args) >= 0 /\ ReflectDotEye(args) >= 0) =>
               ret = Color_add(Color_add(AmbientTerm(args), DiffuseTerm(args)), SpecularTerm(args))

\* The light in front of an oblique surface, its reflection pointing away
\* from the eye: diffuse without specular.
C29_Witness ==
    /\ op = "lightning"
    /\ ~args.in_shadow
    /\ LightDotNormal(args) > 0
    /\ ReflectDotEye(args) < 0
    /\ args.material.shininess = 2 * ONE
    /\ ret # AmbientTerm(args)

====
